---- MODULE Spec2Model ----
(***************************************************************************)
(* Session state store, conversation turn and escalation coordinator of    *)
(* the customer-agent voice service.                                       *)
(*                                                                         *)
(* One session and one call are modelled.  A coroutine runs atomically     *)
(* between two suspension points, so every action below is one such        *)
(* segment.  With the Redis store every store call is a suspension point;  *)
(* with the in-memory store the store calls never suspend (an uncontended  *)
(* asyncio.Lock is acquired without yielding), so a read followed by a     *)
(* write is one segment.                                                   *)
(***************************************************************************)
EXTENDS Integers, Sequences, FiniteSets, TLC

\* ------------------------------------------------------------------ bounds
MaxVersion == 3      \* highest stored version a compare-and-set may start from
MaxTurns   == 2      \* user messages processed in one behaviour
MaxNotifs  == 2      \* notifications created in one behaviour
MaxDigits  == 1      \* keypress webhooks of the confirmation step in one behaviour
MaxConfirms == 2     \* deliveries of the keypress webhook when it is repeated
MaxAnswers == 2      \* answers of the sales dashboard to the rings of one session
MaxStatus  == 4      \* status callbacks of the human leg in one behaviour
MaxRequests == 2     \* escalation requests of the engine in one behaviour
MaxUtterances == 2   \* utterance turns of the caller in one behaviour
MaxFrames  == 34     \* media frames of the caller in one behaviour
MaxInbox   == 2      \* frames waiting while the websocket loop is busy
MaxChunks  == 2      \* chunks of one response audio
MaxPolls   == 1      \* proactive messages of the event poller in one behaviour

\* ------------------------------------------------------- program constants
MAX_RETRIES == 3
WATCHDOG_CHECK_INTERVAL == 5     \* seconds between two wake-ups of the watchdog
WATCHDOG_TIMEOUT == 60           \* seconds after which it polls and stops
RINGING_TIMEOUT == 30            \* seconds of RINGING after which it polls and stops
CALLING_TIMEOUT == 15            \* seconds of CALLING after which it polls at every wake-up
MIN_SILENCE_FRAMES == 30         \* silent frames that end an utterance
MIN_SPEECH_FRAMES == 5           \* declared as the frames that confirm speech

Procs == {1, 2}      \* concurrent callers of the store (two requests in flight)

VARIABLES
    use_redis,       \* StateStore._use_redis
    store,           \* the record under session:<id> (or _memory_store[<id>])
    notif_list,      \* Redis list notifications:<id>
    delivered_set,   \* Redis set delivered_notifications:<id>
    task_key,        \* Redis key task:<id>:<task_id>
    cas,             \* per caller: the set_state_if_version call in progress
    writer,          \* per caller: a client that reads and then compare-and-sets
    turn,            \* per caller: ConversationService.process_message in progress
    next_turn,       \* number of user messages accepted so far
    tasks_spawned,   \* number of execute_human_check tasks created so far
    worker,          \* BackgroundWorker.execute_human_check in progress
    next_notif,      \* number of notifications created so far
    published,       \* history: ids passed to append_notification_atomic
    handed,          \* history: per notification, the turns whose engine run got it
    call,            \* the ActiveCall of the session
    handler,         \* the escalation webhook being handled
    transfer,        \* delayed_transfer tasks created by handle_human_confirmed
    statuses,        \* history: the CallStatus values /human-status received
    digits,          \* history: the Digits values /human-confirmed received
    written,         \* history: the escalation fields a handler last wrote to the record
    requests,        \* history: escalation requests of the engine and the calls they started
    watchdog,        \* the _human_call_watchdog task of the escalation
    polled,          \* the human call's status at the provider, as calls(sid).fetch() returns it
    registry,        \* TwilioVoiceService._stream_to_call and _session_to_call
    stream,          \* per media stream: its media_stream_websocket handler
    engine_calls,    \* history: the messages passed to process_voice_message
    leg,             \* the caller's leg at the provider and its undelivered conference-end event
    returned,        \* history: the human leg completed while in the conference
    vad,             \* the audio fields of the ActiveCall: buffer, VAD and playback flags
    media,           \* the websocket loop: its position, unread frames, playbacks, utterances
    trace,           \* history: the frames process_audio_chunk has been given
    viewers,         \* the websockets of ConnectionManager.connections[session_id]
    broadcast,       \* ConnectionManager.broadcast in progress for the session
    sales,           \* SalesConnectionManager: connections, _pending_escalations, the rings
    index            \* _active_calls, _stream_to_call and _session_to_call of the calls of one session

sideVars  == <<notif_list, delivered_set, task_key>>
turnVars  == <<turn, next_turn, tasks_spawned>>
workVars  == <<worker, next_notif>>
histVars  == <<published, handed>>
escVars   == <<call, handler, transfer, statuses, digits, written>>
watchVars == <<watchdog, polled>>
streamVars == <<registry, stream, engine_calls>>
callSide  == <<streamVars, leg, returned>>
mediaVars == <<vad, media, trace>>
dashVars  == <<viewers, broadcast, sales, index>>
voiceVars == <<requests, watchVars, callSide, mediaVars, dashVars>>

vars == <<use_redis, store, sideVars, cas, writer, turnVars, workVars, histVars, escVars,
         voiceVars>>

\* the voice side of the service at rest: no escalation requested
NoRequests == [seen |-> 0, started |-> 0, transfers |-> 0]

\* no watchdog task; ticks counts its wake-ups, ringing_start is the wake-up
\* that first saw RINGING (0: ringing_start_time is None)
NoWatchdog == [pc |-> "off", ticks |-> 0, ringing_start |-> 0]

\* the media streams of the call: 1 is the stream of the incoming call, 2 the
\* stream of the TwiML that returns the caller to the AI (resumed = true)
Streams == {1, 2}

\* no websocket for the stream yet; seen is the call state its stop event found
NoStream == [pc |-> "none", stop_pending |-> FALSE, should_end |-> FALSE, seen |-> "none"]

NoRegistry == [stream_to_call |-> {}, session_to_call |-> FALSE]

\* the caller is connected to the media stream of the call
OnStream == [at |-> "stream", conference_end |-> FALSE]

\* ActiveCall defaults: audio_buffer, silence_frames, is_speaking,
\* is_playing_audio, barge_in_requested
NoVad ==
    [audio_buffer |-> <<>>, silence_frames |-> 0, is_speaking |-> FALSE,
     is_playing_audio |-> FALSE, barge_in_requested |-> FALSE]

\* who calls send_audio_to_stream: the media branch of the websocket loop
\* after an utterance turn, and the event_poller task
Players == {"turn", "poller"}

\* no send_audio_to_stream in progress; spoke and overran are history: a loud
\* frame arrived during the playback, a chunk was sent after that
NoPlayback == [pc |-> "idle", left |-> 0, spoke |-> FALSE, overran |-> FALSE]

\* the websocket loop waits for a message, nothing is unread or playing
NoMedia ==
    [loop |-> "idle", inbox |-> <<>>, playback |-> [b \in Players |-> NoPlayback],
     polls |-> 0, utterances |-> <<>>]

\* no frame so far
NoTrace ==
    [fed |-> 0, loud_run |-> 0, quiet_run |-> 0, speech_start |-> 0, interrupted |-> FALSE]

\* the viewer websockets of one session
Viewers == {1, 2, 3}

\* a registered viewer whose connection takes what is sent to it
OkViewer == [registered |-> TRUE, link |-> "ok"]

\* no broadcast in progress; connections is the copy taken under the lock,
\* todo the part of it the loop has not reached, sending the viewer whose
\* send_json is awaited (0: none); received and waited are history: the
\* viewers that got the message, the viewers whose send did not return at once
NoBroadcast ==
    [pc |-> "idle", connections |-> {}, todo |-> {}, sending |-> 0, received |-> {},
     waited |-> {}]

\* the ring_sales calls of one session
Rings == {1, 2}

\* a ring_sales call that has not started; result is the state of its future
\* ("none": pending, "cancelled": cancelled by wait_for), outcome the reason
\* of the dict it returned
NoRing == [pc |-> "idle", result |-> "none", outcome |-> "none"]

\* the sales manager at rest: one sales dashboard connected, no pending
\* escalation (pending is the ring whose future _pending_escalations holds
\* for the session, 0: no entry); answers and unhandled are history: the
\* calls of handle_sales_response and those that returned False
NoSales ==
    [online |-> TRUE, pending |-> 0, ring |-> [r \in Rings |-> NoRing], answers |-> 0,
     unhandled |-> 0]

\* the call sids that come in with the session id of one session
Calls == {1, 2}

\* the three indices empty; 0 stands for no entry and for stream_sid None
NoIndex ==
    [active_calls |-> {}, stream_sid |-> [c \in Calls |-> 0],
     stream_to_call |-> [s \in Streams |-> 0], session_to_call |-> 0]

MediaIdle ==
    /\ vad = NoVad
    /\ media = NoMedia
    /\ trace = NoTrace
    /\ viewers = [v \in Viewers |-> OkViewer]
    /\ broadcast = NoBroadcast
    /\ sales = NoSales
    /\ index = NoIndex

VoiceIdle ==
    /\ MediaIdle
    /\ requests = NoRequests
    /\ watchdog = NoWatchdog
    /\ polled = "queued"
    /\ registry = [NoRegistry EXCEPT !.session_to_call = call.active]
    /\ stream = [s \in Streams |-> NoStream]
    /\ engine_calls = <<>>
    /\ leg = OnStream
    /\ returned = "no"

\* ------------------------------------------------------- ConversationState
\* ConversationState(session_id=...) with its defaults; exists = FALSE is the
\* missing key.
NewState ==
    [exists |-> TRUE, version |-> 0, messages |-> <<>>,
     escalation_in_progress |-> FALSE, human_agent_status |-> "null",
     notifications_queue |-> <<>>, pending_tasks |-> <<>>]

NoState == [NewState EXCEPT !.exists = FALSE]

\* ------------------------------------------------------------- StateStore
\* get_state_with_version: (state, state.version) or (None, 0)
get_state_with_version(st) ==
    [state |-> st, version |-> IF st.exists THEN st.version ELSE 0]

\* the version test of set_state_if_version (both stores)
VersionConflictAlways(current, expected_version) == FALSE

VersionConflict(current, expected_version) ==
    current.exists /\ current.version # expected_version

\* state.version = expected_version + 1 before the record is dumped
WithNextVersion(state, expected_version) ==
    [state EXCEPT !.version = expected_version + 1]

\* Redis: a write to the session key marks every connection WATCHing it.
Touched(c) ==
    [q \in Procs |->
        IF c[q].watch = "clean" THEN [c[q] EXCEPT !.watch = "dirty"] ELSE c[q]]

IdleCas == [pc |-> "idle", state |-> NoState, expected |-> 0, watch |-> "off"]

\* set_state_if_version, in-memory store: check and write under the lock.
CasMemory(p) ==
    /\ ~use_redis
    /\ cas[p].pc = "call"
    /\ IF VersionConflict(store, cas[p].expected)
       THEN /\ cas' = [cas EXCEPT ![p].pc = "conflict"]
            /\ UNCHANGED store
       ELSE /\ store' = WithNextVersion(cas[p].state, cas[p].expected)
            /\ cas' = [cas EXCEPT ![p].pc = "ok",
                                  ![p].state = WithNextVersion(cas[p].state, cas[p].expected)]
    /\ UNCHANGED <<voiceVars, use_redis, sideVars, writer, turnVars, workVars, histVars, escVars>>

\* set_state_if_version, Redis: WATCH key
CasWatch(p) ==
    /\ use_redis
    /\ cas[p].pc = "call"
    /\ cas' = [cas EXCEPT ![p].pc = "get", ![p].watch = "clean"]
    /\ UNCHANGED <<voiceVars, use_redis, store, sideVars, writer, turnVars, workVars, histVars, escVars>>

\* set_state_if_version, Redis: GET key, compare versions, UNWATCH on conflict
CasGet(p) ==
    /\ use_redis
    /\ cas[p].pc = "get"
    /\ IF VersionConflict(store, cas[p].expected)
       THEN cas' = [cas EXCEPT ![p].pc = "conflict", ![p].watch = "off"]
       ELSE cas' = [cas EXCEPT ![p].pc = "exec",
                               ![p].state = WithNextVersion(cas[p].state, cas[p].expected)]
    /\ UNCHANGED <<voiceVars, use_redis, store, sideVars, writer, turnVars, workVars, histVars, escVars>>

\* set_state_if_version, Redis: MULTI / SET / EXEC; WatchError when the key
\* was written since WATCH
CasExec(p) ==
    /\ use_redis
    /\ cas[p].pc = "exec"
    /\ IF cas[p].watch = "dirty"
       THEN /\ cas' = [cas EXCEPT ![p].pc = "conflict", ![p].watch = "off"]
            /\ UNCHANGED store
       ELSE /\ store' = cas[p].state
            /\ cas' = [Touched(cas) EXCEPT ![p].pc = "ok", ![p].watch = "off"]
    /\ UNCHANGED <<voiceVars, use_redis, sideVars, writer, turnVars, workVars, histVars, escVars>>

\* set_state: the record is stored as given, its version field included
set_state(state) == state

\* ------------------------------------------------- Notification, BackgroundTask
Notification(id, task, prio) ==
    [notification_id |-> id, task_id |-> task, priority |-> prio, delivered |-> FALSE]

BackgroundTask(id) ==
    [task_id |-> id, status |-> "pending", human_available |-> "null"]

\* the missing task:<id>:<task_id> key; a present key holds the fields set so far
NoTaskKey == [present |-> FALSE, status |-> "unset", human_available |-> "unset"]

\* ConversationState.get_undelivered_notifications
get_undelivered_notifications(state) ==
    SelectSeq(state.notifications_queue, LAMBDA n : ~n.delivered)

\* is_notification_delivered, in-memory store: the first entry with that id
is_delivered_in_state(state, id) ==
    LET q == state.notifications_queue
        hits == {i \in 1..Len(q) : q[i].notification_id = id}
    IN  IF hits = {} THEN FALSE
        ELSE q[CHOOSE i \in hits : \A j \in hits : i <= j].delivered

\* --------------------------------------------------------- the engine turn
priority_order(prio) ==
    CASE prio = "interrupt" -> 3 [] prio = "high" -> 2 [] prio = "low" -> 1 [] OTHER -> 0

\* notifications.sort(key=get_priority, reverse=True)[0]: the first of the
\* undelivered notifications with the highest priority (the sort is stable)
top_notification(state) ==
    LET u == get_undelivered_notifications(state)
        best == {i \in 1..Len(u) :
                    \A j \in 1..Len(u) :
                        priority_order(u[i].priority) >= priority_order(u[j].priority)}
    IN  u[CHOOSE i \in best : \A j \in best : i <= j]

\* the escalation fields preprocess_node derives from the notification's task
TaskUpdates(state, top) ==
    LET t == state.pending_tasks
        hits == {i \in 1..Len(t) : t[i].task_id = top.task_id /\ t[i].status = "completed"}
    IN  IF hits = {} THEN state
        ELSE LET last == t[CHOOSE i \in hits : \A j \in hits : i >= j]
             IN  IF last.human_available = "true"
                 THEN [state EXCEPT !.human_agent_status = "connected"]
                 ELSE [state EXCEPT !.human_agent_status = "unavailable",
                                    !.escalation_in_progress = FALSE]

preprocess_node(state) ==
    IF get_undelivered_notifications(state) = <<>> THEN state
    ELSE LET top == top_notification(state)
             marked == [i \in 1..Len(state.notifications_queue) |->
                          IF state.notifications_queue[i].notification_id = top.notification_id
                          THEN [state.notifications_queue[i] EXCEPT !.delivered = TRUE]
                          ELSE state.notifications_queue[i]]
         IN  TaskUpdates([state EXCEPT !.notifications_queue = marked], top)

\* _parse_tool_results for an ESCALATION_STARTED tool message
postprocess_node(state, escalate, task_id) ==
    IF escalate
    THEN [state EXCEPT !.escalation_in_progress = TRUE,
                       !.pending_tasks = Append(@, BackgroundTask(task_id))]
    ELSE state

\* graph.process_message: the user message is appended, the graph runs, and
\* the result is rebuilt from the graph's channels; "version" is not among the
\* inputs, so the result carries the default version 0.
process_message(current_state, t, escalate, task_id) ==
    LET with_user == [current_state EXCEPT
                        !.messages = Append(@, [role |-> "human", turn |-> t])]
        pre       == preprocess_node(with_user)
        answered  == [pre EXCEPT !.messages = Append(@, [role |-> "ai", turn |-> t])]
        post      == postprocess_node(answered, escalate, task_id)
    IN  [post EXCEPT !.version = 0]

\* the notification an engine run on this state hands over ({} when none)
HandedOver(state) ==
    IF get_undelivered_notifications(state) = <<>> THEN {}
    ELSE {top_notification(state).notification_id}

\* ------------------------------------- sync_atomic_updates_to_state, in memory
\* get_pending_notifications returns the undelivered entries of the stored
\* record itself, and they are appended to it again.
SyncMemory(st) ==
    LET pending == get_undelivered_notifications(st)
        checked == [i \in 1..Len(pending) |->
                      [pending[i] EXCEPT !.delivered =
                          is_delivered_in_state(st, pending[i].notification_id)]]
        merged  == [st EXCEPT !.notifications_queue = @ \o checked]
    IN  IF pending = <<>> THEN st
        ELSE WithNextVersion(merged, st.version)

\* ------------------------------------- ConversationService.process_message
IdleTurn ==
    [pc |-> "idle", id |-> 0, retries |-> 0, state |-> NoState, version |-> 0,
     updated |-> NoState, modified |-> FALSE,
     reads |-> 0, attempts |-> 0, engine_runs |-> 0, forced |-> 0,
     snap |-> {}, synced |-> FALSE]

\* while retries < MAX_RETRIES
LoopContinues(retries) == retries < MAX_RETRIES

\* a loop that gives up and forces its save at the first conflict
RetriesExhaustedEarly(retries) == retries >= 1

\* if retries >= MAX_RETRIES: force save and break
RetriesExhausted(retries) == retries >= MAX_RETRIES

\* a client of the store that has not read yet
IdleWriter == [pc |-> "idle", version |-> 0, state |-> NoState]

IdleWorker == [pc |-> "idle", accepted |-> FALSE, existing |-> NoTaskKey, notif |-> 0]

\* a request with a user message arrives: retries = 0
TurnStart(p) ==
    /\ turn[p].pc = "idle"
    /\ next_turn < MaxTurns
    /\ next_turn' = next_turn + 1
    /\ turn' = [turn EXCEPT ![p] = [IdleTurn EXCEPT !.pc = "read", !.id = next_turn + 1]]
    /\ UNCHANGED <<voiceVars, use_redis, store, sideVars, cas, writer, tasks_spawned, workVars,
                   histVars, escVars>>

\* Redis: get_state_with_version at the top of the loop
TurnRead(p) ==
    /\ use_redis
    /\ turn[p].pc = "read"
    /\ IF get_state_with_version(store).state.exists
       THEN turn' = [turn EXCEPT ![p].pc = "sync_read", ![p].snap = published,
                                 ![p].synced = FALSE, ![p].reads = @ + 1]
       ELSE turn' = [turn EXCEPT ![p].pc = "create", ![p].synced = FALSE,
                                 ![p].reads = @ + 1]
    /\ UNCHANGED <<voiceVars, use_redis, store, sideVars, cas, writer, next_turn, tasks_spawned,
                   workVars, histVars, escVars>>

\* Redis: create_session writes a fresh record with set_state
TurnCreate(p) ==
    /\ use_redis
    /\ turn[p].pc = "create"
    /\ store' = set_state(NewState)
    /\ cas' = Touched(cas)
    /\ turn' = [turn EXCEPT ![p].pc = "engine", ![p].state = NewState,
                            ![p].version = NewState.version]
    /\ UNCHANGED <<voiceVars, use_redis, sideVars, writer, next_turn, tasks_spawned, workVars,
                   histVars, escVars>>

\* Redis, sync_atomic_updates_to_state: its own get_state_with_version; a
\* missing record makes it return None, and process_message then fails on
\* state.version
SyncRead(p) ==
    /\ use_redis
    /\ turn[p].pc = "sync_read"
    /\ IF store.exists
       THEN turn' = [turn EXCEPT ![p].pc = "sync_drain", ![p].state = store,
                                 ![p].version = get_state_with_version(store).version,
                                 ![p].modified = FALSE]
       ELSE turn' = [turn EXCEPT ![p].pc = "raised"]
    /\ UNCHANGED <<voiceVars, use_redis, store, sideVars, cas, writer, next_turn, tasks_spawned,
                   workVars, histVars, escVars>>

\* the end of one pass of sync_atomic_updates_to_state: compare-and-set when
\* something was merged, else return the record as read
SyncSave(p, t) ==
    IF t.modified
    THEN /\ turn' = [turn EXCEPT ![p] = [t EXCEPT !.pc = "sync_cas"]]
         /\ cas' = [cas EXCEPT ![p] = [pc |-> "call", state |-> t.state,
                                       expected |-> t.version, watch |-> "off"]]
    ELSE /\ turn' = [turn EXCEPT ![p] = [t EXCEPT !.pc = "engine", !.synced = TRUE]]
         /\ UNCHANGED cas

\* the task fields the atomic key holds, applied to the tasks of that id
MergeTaskKey(tasks, key) ==
    [i \in 1..Len(tasks) |->
        [tasks[i] EXCEPT
            !.status = IF key.status = "unset" THEN @ ELSE key.status,
            !.human_available =
                IF key.human_available = "unset" THEN @ ELSE key.human_available]]

\* Redis, get_pending_notifications: LPOP until the list is empty, then
\* is_notification_delivered (SISMEMBER) for each; then the GET of the task key
SyncDrain(p) ==
    /\ use_redis
    /\ turn[p].pc = "sync_drain"
    /\ LET checked == [i \in 1..Len(notif_list) |->
                         [notif_list[i] EXCEPT !.delivered =
                             notif_list[i].notification_id \in delivered_set]]
           t == [turn[p] EXCEPT
                    !.state.notifications_queue = @ \o checked,
                    !.modified = (notif_list # <<>>),
                    !.pc = "sync_task_get"]
       IN  turn' = [turn EXCEPT ![p] = t]
    /\ notif_list' = <<>>
    /\ UNCHANGED <<voiceVars, use_redis, store, delivered_set, task_key, cas, writer, next_turn,
                   tasks_spawned, workVars, histVars, escVars>>

\* Redis: GET task:<id>:<task_id> for the tasks of the record that was read
SyncTaskGet(p) ==
    /\ use_redis
    /\ turn[p].pc = "sync_task_get"
    /\ IF turn[p].state.pending_tasks # <<>> /\ task_key.present
       THEN /\ turn' = [turn EXCEPT
                          ![p].state.pending_tasks = MergeTaskKey(@, task_key),
                          ![p].pc = "sync_task_del"]
            /\ UNCHANGED cas
       ELSE SyncSave(p, turn[p])
    /\ UNCHANGED <<voiceVars, use_redis, store, sideVars, writer, next_turn, tasks_spawned,
                   workVars, histVars, escVars>>

\* Redis: DELETE task:<id>:<task_id>, then save
SyncTaskDel(p) ==
    /\ use_redis
    /\ turn[p].pc = "sync_task_del"
    /\ task_key' = NoTaskKey
    /\ SyncSave(p, [turn[p] EXCEPT !.modified = TRUE])
    /\ UNCHANGED <<voiceVars, use_redis, store, notif_list, delivered_set, writer, next_turn,
                   tasks_spawned, workVars, histVars, escVars>>

\* Redis: the compare-and-set of sync returned; on a conflict it calls itself
SyncCasResult(p) ==
    /\ turn[p].pc = "sync_cas"
    /\ cas[p].pc \in {"ok", "conflict"}
    /\ IF cas[p].pc = "ok"
       THEN turn' = [turn EXCEPT ![p].pc = "engine", ![p].state = cas[p].state,
                                 ![p].version = cas[p].state.version,
                                 ![p].synced = TRUE]
       ELSE turn' = [turn EXCEPT ![p].pc = "sync_read"]
    /\ cas' = [cas EXCEPT ![p] = IdleCas]
    /\ UNCHANGED <<voiceVars, use_redis, store, sideVars, writer, next_turn, tasks_spawned,
                   workVars, histVars, escVars>>

\* in-memory store: the read of the loop and the whole sync are one segment
TurnReadMemory(p) ==
    /\ ~use_redis
    /\ turn[p].pc = "read"
    /\ IF store.exists
       THEN /\ store' = SyncMemory(store)
            /\ turn' = [turn EXCEPT ![p].pc = "engine", ![p].state = SyncMemory(store),
                                    ![p].version = SyncMemory(store).version,
                                    ![p].snap = published, ![p].synced = TRUE,
                                    ![p].reads = @ + 1]
       ELSE /\ store' = set_state(NewState)
            /\ turn' = [turn EXCEPT ![p].pc = "engine", ![p].state = NewState,
                                    ![p].version = NewState.version,
                                    ![p].synced = FALSE, ![p].reads = @ + 1]
    /\ UNCHANGED <<voiceVars, use_redis, sideVars, cas, writer, next_turn, tasks_spawned, workVars,
                   histVars, escVars>>

\* the graph runs on the state that was read (the language model call is the
\* suspension point); request_human_agent spawns execute_human_check
TurnEngine(p) ==
    /\ turn[p].pc = "engine"
    /\ \E escalate \in BOOLEAN :
        /\ escalate => tasks_spawned < 1 /\ worker.pc = "idle"
        /\ LET out == process_message(turn[p].state, turn[p].id, escalate, 1)
           IN  /\ turn' = [turn EXCEPT ![p].updated = out,
                                       ![p].engine_runs = @ + 1,
                                       ![p].synced = FALSE,
                                       ![p].pc = IF use_redis THEN "commit_cas" ELSE "commit"]
               /\ cas' = IF use_redis
                         THEN [cas EXCEPT ![p] = [pc |-> "call", state |-> out,
                                                  expected |-> turn[p].version,
                                                  watch |-> "off"]]
                         ELSE cas
        /\ tasks_spawned' = IF escalate THEN tasks_spawned + 1 ELSE tasks_spawned
        /\ worker' = IF escalate THEN [IdleWorker EXCEPT !.pc = "running"] ELSE worker
    /\ handed' = [n \in DOMAIN handed |->
                    IF n \in HandedOver(turn[p].state)
                    THEN handed[n] \cup {turn[p].id} ELSE handed[n]]
    /\ UNCHANGED <<voiceVars, use_redis, store, sideVars, writer, next_turn, next_notif, published,
                   escVars>>

\* Redis: set_state_if_version returned to process_message
TurnCommitResult(p) ==
    /\ turn[p].pc = "commit_cas"
    /\ cas[p].pc \in {"ok", "conflict"}
    /\ IF cas[p].pc = "ok"
       THEN turn' = [turn EXCEPT ![p].pc = "done", ![p].attempts = @ + 1,
                                 ![p].updated = cas[p].state]
       ELSE turn' = [turn EXCEPT ![p].retries = @ + 1, ![p].attempts = @ + 1,
                                 ![p].updated = cas[p].state,
                                 ![p].pc = IF RetriesExhausted(turn[p].retries + 1)
                                           THEN "force"
                                           ELSE IF LoopContinues(turn[p].retries + 1)
                                           THEN "read" ELSE "done"]
    /\ cas' = [cas EXCEPT ![p] = IdleCas]
    /\ UNCHANGED <<voiceVars, use_redis, store, sideVars, writer, next_turn, tasks_spawned,
                   workVars, histVars, escVars>>

\* Redis: the force save, set_state(session_id, updated_state)
TurnForce(p) ==
    /\ turn[p].pc = "force"
    /\ store' = set_state(turn[p].updated)
    /\ cas' = Touched(cas)
    /\ turn' = [turn EXCEPT ![p].pc = "done", ![p].forced = @ + 1]
    /\ UNCHANGED <<voiceVars, use_redis, sideVars, writer, next_turn, tasks_spawned, workVars,
                   histVars, escVars>>

\* in-memory store: the compare-and-set, and on a conflict either the force
\* save or the next read and sync, are one segment
TurnCommitMemory(p) ==
    /\ ~use_redis
    /\ turn[p].pc = "commit"
    /\ IF ~VersionConflict(store, turn[p].version)
       THEN /\ store' = WithNextVersion(turn[p].updated, turn[p].version)
            /\ turn' = [turn EXCEPT ![p].pc = "done", ![p].attempts = @ + 1,
                           ![p].updated = WithNextVersion(turn[p].updated, turn[p].version)]
       ELSE IF RetriesExhausted(turn[p].retries + 1)
       THEN /\ store' = set_state(turn[p].updated)
            /\ turn' = [turn EXCEPT ![p].pc = "done", ![p].attempts = @ + 1,
                                    ![p].retries = @ + 1, ![p].forced = @ + 1]
       ELSE IF ~LoopContinues(turn[p].retries + 1)
       THEN /\ store' = store
            /\ turn' = [turn EXCEPT ![p].pc = "done", ![p].attempts = @ + 1,
                                    ![p].retries = @ + 1]
       ELSE /\ store' = SyncMemory(store)
            /\ turn' = [turn EXCEPT ![p].pc = "engine", ![p].attempts = @ + 1,
                                    ![p].retries = @ + 1, ![p].reads = @ + 1,
                                    ![p].state = SyncMemory(store),
                                    ![p].version = SyncMemory(store).version,
                                    ![p].snap = published, ![p].synced = TRUE]
    /\ UNCHANGED <<voiceVars, use_redis, sideVars, cas, writer, next_turn, tasks_spawned, workVars,
                   histVars, escVars>>

\* process_message returns its ChatResponse (or the exception propagates)
TurnReturn(p) ==
    /\ turn[p].pc \in {"done", "raised"}
    /\ turn' = [turn EXCEPT ![p] = IdleTurn]
    /\ UNCHANGED <<voiceVars, use_redis, store, sideVars, cas, writer, next_turn, tasks_spawned,
                   workVars, histVars, escVars>>

\* --------------------------------------------- BackgroundWorker and webhooks
\* StateStore.update_task: the first task with that id takes the updates
update_task(state, task_id, status, human_available) ==
    LET t == state.pending_tasks
        hits == {i \in 1..Len(t) : t[i].task_id = task_id}
    IN  IF hits = {} THEN state
        ELSE LET first == CHOOSE i \in hits : \A j \in hits : i <= j
             IN  [state EXCEPT !.pending_tasks[first] =
                    [@ EXCEPT !.status = status,
                              !.human_available =
                                 IF human_available = "unset" THEN @ ELSE human_available]]

\* the updates execute_human_check passes to update_task_atomic
TaskStatusOf(w) == IF w.pc \in {"running", "running_set"} THEN "running" ELSE "completed"

TaskAvailableOf(w) ==
    IF w.pc \in {"running", "running_set"} THEN "unset"
    ELSE IF w.accepted THEN "true" ELSE "false"

\* Redis, update_task_atomic: GET of the task key
UpdateTaskGet ==
    /\ use_redis
    /\ worker.pc \in {"running", "completed"}
    /\ worker' = [worker EXCEPT !.existing = task_key,
                                !.pc = IF worker.pc = "running" THEN "running_set"
                                       ELSE "completed_set"]
    /\ UNCHANGED <<voiceVars, use_redis, store, sideVars, cas, writer, turnVars, next_notif,
                   histVars, escVars>>

\* Redis, update_task_atomic: SET of the task key with the updates applied
UpdateTaskSet ==
    /\ use_redis
    /\ worker.pc \in {"running_set", "completed_set"}
    /\ task_key' = [present |-> TRUE, status |-> TaskStatusOf(worker),
                    human_available |->
                        IF TaskAvailableOf(worker) = "unset"
                        THEN worker.existing.human_available
                        ELSE TaskAvailableOf(worker)]
    /\ worker' = [worker EXCEPT !.existing = NoTaskKey,
                                !.pc = IF worker.pc = "running_set" THEN "ring"
                                       ELSE "notify"]
    /\ UNCHANGED <<voiceVars, use_redis, store, notif_list, delivered_set, cas, writer, turnVars,
                   next_notif, histVars, escVars>>

\* in-memory store, update_task_atomic: update_task on the main record
UpdateTaskMemory ==
    /\ ~use_redis
    /\ worker.pc \in {"running", "completed"}
    /\ store' = IF store.exists
                THEN set_state(update_task(store, 1, TaskStatusOf(worker),
                                           TaskAvailableOf(worker)))
                ELSE store
    /\ worker' = [worker EXCEPT !.pc = IF worker.pc = "running" THEN "ring" ELSE "notify"]
    /\ UNCHANGED <<voiceVars, use_redis, sideVars, cas, writer, turnVars, next_notif, histVars,
                   escVars>>

\* the local time at which ring_sales returns: hours of the working day, and
\* of the whole day; minutes of the first and of the second half hour
WorkingHours == {10}
DayHours == {10, 22, 23}
HalfHours == {0, 30}

\* _get_next_callback_slot: now.replace(hour=now.hour + 2) for the second half
\* hour, now.replace(hour=now.hour + 1, ...) for the first; replace raises
\* ValueError for an hour above 23
CallbackSlotRaises(hour, minute) ==
    LET minutes == 30 * ((minute \div 30) + 1)
    IN  IF minutes >= 60 THEN hour + 2 > 23 ELSE hour + 1 > 23

\* ring_sales returned at one of the hours: a sales viewer accepted, or
\* declined / timed out / none is online; the decline branch computes the
\* callback slot, and an exception ends execute_human_check
RingSalesAt(hours) ==
    /\ worker.pc = "ring"
    /\ \E accepted \in BOOLEAN, hour \in hours, minute \in HalfHours :
         worker' = IF ~accepted /\ CallbackSlotRaises(hour, minute)
                   THEN [worker EXCEPT !.pc = "raised"]
                   ELSE [worker EXCEPT !.pc = "completed", !.accepted = accepted]
    /\ UNCHANGED <<voiceVars, use_redis, store, sideVars, cas, writer, turnVars, next_notif,
                   histVars, escVars>>

RingSales == RingSalesAt(WorkingHours)

\* append_notification_atomic: RPUSH on the notification list, or
\* add_notification on the main record of the in-memory store
append_notification_atomic(notification) ==
    /\ IF use_redis
       THEN /\ notif_list' = Append(notif_list, notification)
            /\ store' = store
       ELSE /\ store' = IF store.exists
                        THEN set_state([store EXCEPT
                                 !.notifications_queue = Append(@, notification)])
                        ELSE store
            /\ notif_list' = notif_list
    /\ published' = IF use_redis \/ store.exists
                    THEN published \cup {notification.notification_id}
                    ELSE published
    /\ next_notif' = next_notif + 1

\* execute_human_check creates its notification and publishes it
WorkerNotify ==
    /\ worker.pc = "notify"
    /\ next_notif < MaxNotifs
    /\ append_notification_atomic(
          Notification(next_notif + 1, 1, IF worker.accepted THEN "interrupt" ELSE "high"))
    /\ worker' = [worker EXCEPT !.pc = "callback", !.notif = next_notif + 1]
    /\ UNCHANGED <<voiceVars, use_redis, delivered_set, task_key, cas, writer, turnVars, handed,
                   escVars>>

\* mark_notification_delivered, in-memory store: the first entry with that id
mark_delivered_in_state(state, id) ==
    LET q == state.notifications_queue
        hits == {i \in 1..Len(q) : q[i].notification_id = id}
    IN  IF hits = {} THEN state
        ELSE [state EXCEPT
                !.notifications_queue[CHOOSE i \in hits : \A j \in hits : i <= j].delivered
                    = TRUE]

\* notification_callback: broadcast to the session's viewers, then
\* mark_notification_delivered
NotificationCallback ==
    /\ worker.pc = "callback"
    /\ IF use_redis
       THEN /\ delivered_set' = delivered_set \cup {worker.notif}
            /\ store' = store
       ELSE /\ store' = IF store.exists
                        THEN set_state(mark_delivered_in_state(store, worker.notif))
                        ELSE store
            /\ delivered_set' = delivered_set
    /\ worker' = IdleWorker
    /\ UNCHANGED <<voiceVars, use_redis, notif_list, task_key, cas, writer, turnVars, next_notif,
                   histVars, escVars>>

\* _send_call_failed_notification / _send_voicemail_notification /
\* _send_error_notification of the call-status webhooks
PublishWebhook ==
    /\ next_notif < MaxNotifs
    /\ append_notification_atomic(Notification(next_notif + 1, 0, "high"))
    /\ UNCHANGED <<voiceVars, use_redis, delivered_set, task_key, cas, writer, turnVars, worker,
                   handed, escVars>>

\* ------------------------------------------- escalation handlers (the call)
\* no ActiveCall registered for the session
NoCall ==
    [active |-> FALSE, state |-> "none", human_call_status |-> "none",
     conference_name |-> FALSE, human_call_sid |-> FALSE, escalation_reason |-> FALSE,
     escalation_return_reason |-> "null", pending_events |-> <<>>,
     placed |-> FALSE, stream_sid |-> 0]

\* a registered call in the AI conversation whose outbound human leg was
\* answered: _start_human_call_background ran and initiated, ringing and
\* in-progress were handled
AnsweredCall ==
    [NoCall EXCEPT !.active = TRUE, !.state = "ai_conversation",
                   !.human_call_status = "waiting_confirmation",
                   !.conference_name = TRUE, !.human_call_sid = TRUE,
                   !.escalation_reason = TRUE, !.placed = TRUE]

\* nothing written by a handler yet
NoWrite == [done |-> FALSE, agent_status |-> "null", flag |-> FALSE]

IdleHandler ==
    [pc |-> "idle", kind |-> "none", agent_status |-> "null", flag |-> FALSE,
     state |-> NoState]

\* TwilioVoiceService.queue_event
queue_event(c, event_type, reason) ==
    IF c.active
    THEN [c EXCEPT !.pending_events = Append(@, [type |-> event_type, reason |-> reason])]
    ELSE c

\* the handler's write of the escalation fields into the session record:
\* state = get_state(); if state: set the two fields; set_state(state).
\* With Redis the two calls suspend; with the in-memory store they do not.
EscalationFields(state, agent_status, flag) ==
    [state EXCEPT !.human_agent_status = agent_status, !.escalation_in_progress = flag]

StorePart(kind, agent_status, flag) ==
    IF use_redis
    THEN /\ handler' = [IdleHandler EXCEPT !.pc = "read", !.kind = kind,
                                           !.agent_status = agent_status, !.flag = flag]
         /\ store' = store
         /\ written' = written
    ELSE /\ handler' = [IdleHandler EXCEPT !.pc = "finish", !.kind = kind]
         /\ store' = IF store.exists
                     THEN set_state(EscalationFields(store, agent_status, flag))
                     ELSE store
         /\ written' = IF store.exists
                       THEN [done |-> TRUE, agent_status |-> agent_status, flag |-> flag]
                       ELSE written

\* Redis: state = await state_store.get_state(session_id)
HandlerRead ==
    /\ handler.pc = "read"
    /\ handler' = IF store.exists
                  THEN [handler EXCEPT !.pc = "write",
                           !.state = EscalationFields(store, handler.agent_status,
                                                      handler.flag)]
                  ELSE [handler EXCEPT !.pc = "finish"]
    /\ UNCHANGED <<voiceVars, use_redis, store, sideVars, cas, writer, turnVars, workVars, histVars,
                   call, transfer, statuses, digits, written>>

\* Redis: await state_store.set_state(session_id, state)
HandlerWrite ==
    /\ handler.pc = "write"
    /\ store' = set_state(handler.state)
    /\ cas' = Touched(cas)
    /\ handler' = [handler EXCEPT !.pc = "finish", !.state = NoState]
    /\ written' = [done |-> TRUE, agent_status |-> handler.agent_status,
                   flag |-> handler.flag]
    /\ UNCHANGED <<voiceVars, use_redis, sideVars, writer, turnVars, workVars, histVars,
                   call, transfer, statuses, digits>>

\* what the handler does after _notify_dashboard: handle_human_declined queues
\* its event, handle_human_confirmed creates the delayed_transfer task
HandlerFinish ==
    /\ handler.pc = "finish"
    /\ call' = IF handler.kind = "declined"
               THEN queue_event(call, "escalation_failed", "declined")
               ELSE call
    /\ transfer' = IF handler.kind = "confirmed" THEN transfer + 1 ELSE transfer
    /\ handler' = IdleHandler
    /\ UNCHANGED <<voiceVars, use_redis, store, sideVars, cas, writer, turnVars, workVars, histVars,
                   statuses, digits, written>>

\* handle_human_confirmed, up to its store write
handle_human_confirmed ==
    IF ~call.active
    THEN UNCHANGED <<call, handler, store, written>>
    ELSE /\ call' = [call EXCEPT !.human_call_status = "confirmed"]
         /\ StorePart("confirmed", "connected", TRUE)

\* handle_human_declined, up to its store write
handle_human_declined ==
    IF ~call.active
    THEN UNCHANGED <<call, handler, store, written>>
    ELSE /\ call' = [call EXCEPT !.human_call_status = "failed",
                                 !.escalation_reason = FALSE,
                                 !.human_call_sid = FALSE,
                                 !.conference_name = FALSE]
         /\ StorePart("declined", "unavailable", FALSE)

\* a route that would accept whatever key was pressed
DigitAcceptsAny(d) == TRUE

\* if Digits == "1"
DigitAccepts(d) == d = "1"

\* POST /human-confirmed, the action of the Gather played to the human leg:
\* Digits == "1" accepts, anything else declines
HumanConfirmed(limit) ==
    /\ handler.pc = "idle"
    /\ call.placed
    /\ Len(digits) < limit
    /\ \E d \in {"1", "2"} :
         /\ digits' = Append(digits, d)
         /\ IF DigitAccepts(d) THEN handle_human_confirmed ELSE handle_human_declined
    /\ UNCHANGED <<voiceVars, use_redis, sideVars, cas, writer, turnVars, workVars, histVars,
                   transfer, statuses>>

human_confirmed == HumanConfirmed(MaxDigits)

\* the stream the caller's leg is connected to
CurrentStream == IF stream[2].pc # "none" THEN 2 ELSE 1

\* the provider ends the media stream of a leg that leaves it: its stop event
\* (or the close of its connection) is on its way to the websocket handler
StreamLeft(str) ==
    IF str[CurrentStream].pc \in {"none", "stopped", "closed"}
    THEN str
    ELSE [str EXCEPT ![CurrentStream].stop_pending = TRUE]

\* transfer_customer_to_conference goes on to the redirect: the call is
\* registered, the human call is CONFIRMED and there is a conference name
TransferAttempted(c) ==
    c.active /\ c.human_call_status = "confirmed" /\ c.conference_name

\* delayed_transfer after its sleep: transfer_customer_to_conference; the
\* provider's redirect of the caller's leg into the conference raises if the
\* leg is gone, and may raise otherwise
transfer_customer_to_conference ==
    /\ transfer > 0
    /\ transfer' = transfer - 1
    /\ IF TransferAttempted(call)
       THEN \E redirected \in IF leg.at \in {"stream", "conference"} THEN BOOLEAN ELSE {FALSE} :
               /\ call' = [call EXCEPT !.state = "escalating",
                                       !.human_call_status =
                                           IF redirected THEN "in_conference" ELSE "failed"]
               /\ leg' = IF redirected THEN [leg EXCEPT !.at = "conference"] ELSE leg
               /\ stream' = IF redirected /\ leg.at = "stream"
                            THEN StreamLeft(stream) ELSE stream
               /\ requests' = [requests EXCEPT !.transfers = @ + 1]
       ELSE UNCHANGED <<call, leg, stream, requests>>
    /\ UNCHANGED <<use_redis, store, sideVars, cas, writer, turnVars, workVars, histVars,
                   handler, statuses, digits, written, mediaVars, dashVars, watchVars, registry,
                   engine_calls, returned>>

\* --------------------------------------- status callbacks of the human leg
CallStatuses ==
    {"initiated", "ringing", "in-progress", "completed",
     "busy", "no-answer", "failed", "canceled"}

\* status_mapping.get(frontend_status)
status_mapping(frontend_status) ==
    CASE frontend_status = "calling" -> "calling"
      [] frontend_status = "ringing" -> "ringing"
      [] frontend_status = "waiting_confirmation" -> "waiting"
      [] frontend_status \in {"confirmed", "connected"} -> "connected"
      [] frontend_status \in {"no-answer", "busy", "failed", "returned_to_ai"} -> "unavailable"
      [] OTHER -> "null"

\* return_to_ai_conversation(reason), the provider's redirect succeeding
return_to_ai_conversation(c, reason) ==
    [c EXCEPT !.state = "ai_conversation", !.conference_name = FALSE,
              !.human_call_sid = FALSE, !.escalation_return_reason = reason]

\* an update_human_call_status without the branch for an unconfirmed answer
CompletedWhileWaitingIgnored(c) ==
    [call |-> c, frontend_status |-> "completed", escalation_in_progress |-> TRUE]

\* status == "completed" while WAITING_CONFIRMATION: nobody pressed 1
CompletedWhileWaiting(c) ==
    [call |-> queue_event([c EXCEPT !.human_call_status = "failed",
                                    !.escalation_reason = FALSE],
                          "escalation_failed", "no-answer"),
     frontend_status |-> "no-answer", escalation_in_progress |-> FALSE]

\* a handler that reports every terminal outcome as "failed"
TerminalReasonGeneric(status) == "failed"

\* frontend_status of a terminal callback: the specific status for busy,
\* no-answer and canceled, "failed" otherwise
TerminalReason(status) ==
    IF status \in {"busy", "no-answer", "canceled"} THEN status ELSE "failed"

\* the branches of update_human_call_status: the call afterwards, the status
\* for the dashboard, and the flag for the session
StatusOutcome(c, status) ==
    CASE status = "initiated" ->
            [call |-> [c EXCEPT !.human_call_status = "calling"],
             frontend_status |-> "calling", escalation_in_progress |-> TRUE]
      [] status = "ringing" ->
            [call |-> [c EXCEPT !.human_call_status = "ringing"],
             frontend_status |-> "ringing", escalation_in_progress |-> TRUE]
      [] status = "in-progress" ->
            [call |-> [c EXCEPT !.human_call_status = "waiting_confirmation"],
             frontend_status |-> "waiting_confirmation", escalation_in_progress |-> TRUE]
      [] status \in {"busy", "no-answer", "failed", "canceled"} ->
            [call |-> queue_event([c EXCEPT !.human_call_status = "failed",
                                            !.escalation_reason = FALSE,
                                            !.human_call_sid = FALSE,
                                            !.conference_name = FALSE],
                                  "escalation_failed", TerminalReason(status)),
             frontend_status |-> TerminalReason(status),
             escalation_in_progress |-> FALSE]
      [] status = "completed" /\ c.human_call_status = "in_conference" ->
            [call |-> return_to_ai_conversation(
                          [c EXCEPT !.human_call_status = "completed"], "human_ended"),
             frontend_status |-> "returned_to_ai", escalation_in_progress |-> FALSE]
      [] status = "completed" /\ c.human_call_status = "confirmed" ->
            [call |-> queue_event([c EXCEPT !.human_call_status = "failed",
                                            !.escalation_reason = FALSE],
                                  "escalation_failed", "failed"),
             frontend_status |-> "failed", escalation_in_progress |-> FALSE]
      [] status = "completed" /\ c.human_call_status = "waiting_confirmation" ->
            CompletedWhileWaiting(c)
      [] OTHER ->
            [call |-> c, frontend_status |-> status, escalation_in_progress |-> TRUE]

\* the provider's side of return_to_ai_conversation: the caller's leg is
\* redirected to /return-to-ai; leaving the conference ends the conference
ReturnRedirect(l) ==
    IF l.at \in {"stream", "conference"}
    THEN [at |-> "returning", conference_end |-> l.conference_end \/ l.at = "conference"]
    ELSE l

\* the human leg completed while the escalation was in the conference
CompletedInConference(c, status) ==
    status = "completed" /\ c.human_call_status = "in_conference"

\* the statuses on which update_human_call_status calls return_to_ai_conversation
ReturnsToAi(c, status) == CompletedInConference(c, status)

\* POST /human-status with one of the statuses S, at most limit times:
\* update_human_call_status(session_id, CallStatus)
HumanStatus(S, limit) ==
    /\ handler.pc = "idle"
    /\ call.placed
    /\ Len(statuses) < limit
    /\ \E status \in S :
         /\ statuses' = Append(statuses, status)
         /\ returned' = IF CompletedInConference(call, status) /\ returned = "no"
                        THEN "pending" ELSE returned
         /\ IF ~call.active
            THEN UNCHANGED <<call, handler, store, written, leg, stream>>
            ELSE LET out == StatusOutcome(call, status)
                 IN  /\ call' = out.call
                     /\ leg' = IF ReturnsToAi(call, status) THEN ReturnRedirect(leg) ELSE leg
                     /\ stream' = IF ReturnsToAi(call, status) /\ leg.at = "stream"
                                  THEN StreamLeft(stream) ELSE stream
                     /\ StorePart(status, status_mapping(out.frontend_status),
                                  out.escalation_in_progress)
    /\ UNCHANGED <<use_redis, sideVars, cas, writer, turnVars, workVars, histVars,
                   transfer, digits, requests, mediaVars, dashVars, watchVars, registry, engine_calls>>

update_human_call_status == HumanStatus(CallStatuses, MaxStatus)

\* _start_human_call_background: the outbound call is placed unless the
\* provider is not configured or calls.create raises
StartHumanCall(c, placed) ==
    IF placed
    THEN [c EXCEPT !.escalation_reason = TRUE, !.conference_name = TRUE,
                   !.human_call_status = "calling", !.human_call_sid = TRUE,
                   !.placed = TRUE]
    ELSE [c EXCEPT !.escalation_reason = TRUE, !.human_call_status = "failed"]

\* the part of an utterance turn that follows an engine result with
\* needs_escalation: only with no escalation on the call so far
\* (human_call_status NONE) the _start_human_call_background task is created
EscalationRequest(c, placed) ==
    IF c.human_call_status = "none" THEN StartHumanCall(c, placed) ELSE c

CountRequest(r, c) ==
    [r EXCEPT !.seen = @ + 1,
              !.started = IF c.human_call_status = "none" THEN @ + 1 ELSE @]

\* an utterance turn whose engine result has needs_escalation
start_human_call ==
    /\ call.active
    /\ requests.seen < MaxRequests
    /\ requests' = CountRequest(requests, call)
    /\ \E placed \in IF call.human_call_status = "none" THEN BOOLEAN ELSE {FALSE} :
         call' = EscalationRequest(call, placed)
    /\ UNCHANGED <<use_redis, store, sideVars, cas, writer, turnVars, workVars, histVars,
                   handler, transfer, statuses, digits, written, mediaVars, dashVars, watchVars, callSide>>

\* a registered call in the AI conversation, no escalation so far
ConnectedCall == [NoCall EXCEPT !.active = TRUE, !.state = "ai_conversation"]

InitEsc ==
    /\ use_redis \in BOOLEAN
    /\ \E flag \in BOOLEAN :
         store \in {NoState, [NewState EXCEPT !.escalation_in_progress = flag]}
    /\ notif_list = <<>>
    /\ delivered_set = {}
    /\ task_key = NoTaskKey
    /\ cas = [p \in Procs |-> IdleCas]
    /\ writer = [p \in Procs |-> IdleWriter]
    /\ turn = [p \in Procs |-> IdleTurn]
    /\ next_turn = 0
    /\ tasks_spawned = 0
    /\ worker = IdleWorker
    /\ next_notif = 0
    /\ published = {}
    /\ handed = [n \in 1..MaxNotifs |-> {}]
    /\ call = ConnectedCall
    /\ handler = IdleHandler
    /\ transfer = 0
    /\ statuses = <<>>
    /\ digits = <<>>
    /\ written = NoWrite
    /\ VoiceIdle

\* one escalation on one call: the outbound call, its status callbacks, the
\* keypress webhook and the delayed transfer
NextEsc ==
    \/ start_human_call
    \/ update_human_call_status
    \/ human_confirmed
    \/ HandlerRead
    \/ HandlerWrite
    \/ HandlerFinish
    \/ transfer_customer_to_conference

SpecEsc == InitEsc /\ [][NextEsc]_vars

\* request_human_agent has added the task to the session and created the
\* execute_human_check task
SpawnedState ==
    [NewState EXCEPT !.pending_tasks = <<BackgroundTask(1)>>,
                     !.escalation_in_progress = TRUE]

InitWorker ==
    /\ use_redis \in BOOLEAN
    /\ store = SpawnedState
    /\ notif_list = <<>>
    /\ delivered_set = {}
    /\ task_key = NoTaskKey
    /\ cas = [p \in Procs |-> IdleCas]
    /\ writer = [p \in Procs |-> IdleWriter]
    /\ turn = [p \in Procs |-> IdleTurn]
    /\ next_turn = 0
    /\ tasks_spawned = 1
    /\ worker = [IdleWorker EXCEPT !.pc = "running"]
    /\ next_notif = 0
    /\ published = {}
    /\ handed = [n \in 1..MaxNotifs |-> {}]
    /\ call \in {NoCall, [NoCall EXCEPT !.active = TRUE, !.state = "ai_conversation"]}
    /\ handler = IdleHandler
    /\ transfer = 0
    /\ statuses = <<>>
    /\ digits = <<>>
    /\ written = NoWrite
    /\ VoiceIdle

\* one run of execute_human_check at any time of the day, next to the
\* notifications of the call-status webhooks
NextWorker ==
    \/ UpdateTaskGet
    \/ UpdateTaskSet
    \/ UpdateTaskMemory
    \/ RingSalesAt(DayHours)
    \/ WorkerNotify
    \/ NotificationCallback
    \/ PublishWebhook

SpecWorker == InitWorker /\ [][NextWorker]_vars

\* the human leg has answered and hears the Gather: WAITING_CONFIRMATION
WaitingCall ==
    [ConnectedCall EXCEPT !.escalation_reason = TRUE, !.conference_name = TRUE,
                          !.human_call_status = "waiting_confirmation",
                          !.human_call_sid = TRUE, !.placed = TRUE]

InitConfirm ==
    /\ use_redis \in BOOLEAN
    /\ store \in {NoState, [NewState EXCEPT !.escalation_in_progress = TRUE]}
    /\ notif_list = <<>>
    /\ delivered_set = {}
    /\ task_key = NoTaskKey
    /\ cas = [p \in Procs |-> IdleCas]
    /\ writer = [p \in Procs |-> IdleWriter]
    /\ turn = [p \in Procs |-> IdleTurn]
    /\ next_turn = 0
    /\ tasks_spawned = 0
    /\ worker = IdleWorker
    /\ next_notif = 0
    /\ published = {}
    /\ handed = [n \in 1..MaxNotifs |-> {}]
    /\ call = WaitingCall
    /\ handler = IdleHandler
    /\ transfer = 0
    /\ statuses = <<>>
    /\ digits = <<>>
    /\ written = NoWrite
    /\ requests = [NoRequests EXCEPT !.seen = 1, !.started = 1]
    /\ watchdog = NoWatchdog
    /\ polled = "in-progress"
    /\ registry = [NoRegistry EXCEPT !.session_to_call = TRUE]
    /\ stream = [s \in Streams |-> NoStream]
    /\ engine_calls = <<>>
    /\ leg = OnStream
    /\ returned = "no"
    /\ MediaIdle

\* the confirmation step of one escalation: the keypress webhook, delivered
\* up to MaxConfirms times, the delayed transfers and the end of the human leg
NextConfirm ==
    \/ HumanConfirmed(MaxConfirms)
    \/ HandlerRead
    \/ HandlerWrite
    \/ HandlerFinish
    \/ transfer_customer_to_conference
    \/ HumanStatus({"completed"}, 1)

SpecConfirm == InitConfirm /\ [][NextConfirm]_vars

\* ------------------------------------------- the call and its media streams
storeSide == <<use_redis, store, sideVars, cas, writer, turnVars, workVars, histVars>>

EscalationStates == {"escalating", "in_conference"}

\* the three lookups of the call registry
get_call(c) == c.active

get_call_by_stream(reg, c, s) == s \in reg.stream_to_call /\ c.active

get_call_by_session(reg, c) == reg.session_to_call /\ c.active

\* register_stream(stream_sid, call_sid)
register_stream(c, s) ==
    IF c.active THEN [c EXCEPT !.stream_sid = s, !.state = "ai_conversation"] ELSE c

\* cleanup_call(call_sid): the call leaves _active_calls, its current stream
\* leaves _stream_to_call, its session leaves _session_to_call
cleanup_registry(reg, c) ==
    IF c.active
    THEN [stream_to_call |-> reg.stream_to_call \ {c.stream_sid}, session_to_call |-> FALSE]
    ELSE reg

\* a cleanup that pops the stream and session indices only
cleanup_indices_only(c) == c

\* _active_calls.pop(call_sid)
cleanup_call(c) == [c EXCEPT !.active = FALSE]

\* "start" on the websocket of stream s: register_stream, then the call is
\* looked up by its call sid (with the sid of the same call the lookup by
\* session that follows a miss misses as well)
StreamStart(s) ==
    /\ stream[s].pc = "none"
    /\ \/ s = 1 /\ leg.at = "connecting"
       \/ s = 2 /\ leg.at = "resuming"
    /\ leg' = [leg EXCEPT !.at = "stream"]
    /\ registry' = [registry EXCEPT !.stream_to_call = @ \cup {s}]
    /\ call' = register_stream(call, s)
    /\ stream' = [stream EXCEPT ![s].pc = IF get_call(call) THEN "greet" ELSE "open"]
    /\ UNCHANGED <<storeSide, handler, transfer, statuses, digits, written, requests,
                   mediaVars, dashVars, watchVars, engine_calls, returned>>

\* the first turn of a stream: [CALL_STARTED] for a new stream,
\* [ESCALATION_RETURNED:<escalation_return_reason or unavailable>] for a
\* resumed one, whose handler clears the reason afterwards
StreamGreet(s) ==
    /\ stream[s].pc = "greet"
    /\ LET reason == IF call.escalation_return_reason = "null"
                     THEN "unavailable" ELSE call.escalation_return_reason
       IN  engine_calls' = Append(engine_calls,
                                  [stream |-> s,
                                   message |-> IF s = 2 THEN reason ELSE "call_started"])
    /\ call' = IF s = 2 THEN [call EXCEPT !.escalation_return_reason = "null"] ELSE call
    /\ returned' = IF s = 2 /\ returned = "pending" THEN "resumed" ELSE returned
    /\ stream' = [stream EXCEPT ![s].pc = "open"]
    /\ UNCHANGED <<storeSide, handler, transfer, statuses, digits, written, requests,
                   mediaVars, dashVars, watchVars, registry, leg>>

\* number of utterance turns so far
Utterances ==
    Cardinality({i \in 1..Len(engine_calls) : engine_calls[i].message = "utterance"})

\* process_audio_chunk finds the end of an utterance: _process_utterance
\* sets PROCESSING and awaits the transcription
UtterBegin(s) ==
    /\ stream[s].pc = "open"
    /\ leg.at = "stream" /\ s = CurrentStream
    /\ get_call_by_stream(registry, call, s)
    /\ Utterances < MaxUtterances
    /\ call' = [call EXCEPT !.state = "processing"]
    /\ stream' = [stream EXCEPT ![s].pc = "processing"]
    /\ UNCHANGED <<storeSide, handler, transfer, statuses, digits, written, requests,
                   mediaVars, dashVars, watchVars, registry, engine_calls, leg, returned>>

\* what process_voice_message does for an utterance: it returns a result (a
\* reply, with needs_escalation, with should_end) or raises
EngineResults == {"reply", "escalate", "end", "raise"}

\* the calls of process_voice_message in one utterance turn: the user's text,
\* and after an exception the marker [PROCESSING_ERROR]
EngineCallsOfTurn(s, result) ==
    IF result = "raise"
    THEN <<[stream |-> s, message |-> "utterance"],
           [stream |-> s, message |-> "processing_error"]>>
    ELSE <<[stream |-> s, message |-> "utterance"]>>

\* the transcription is empty (back to AI_CONVERSATION), or the engine is
\* called: needs_escalation starts the human call, should_end sets ENDED
UtterEngine(s) ==
    /\ stream[s].pc = "processing"
    /\ \/ /\ call' = [call EXCEPT !.state = "ai_conversation"]
          /\ stream' = [stream EXCEPT ![s].pc = "open"]
          /\ UNCHANGED <<engine_calls, requests>>
       \/ \E result \in EngineResults :
            /\ result = "escalate" => requests.seen < MaxRequests
            /\ engine_calls' = engine_calls \o EngineCallsOfTurn(s, result)
            /\ requests' = IF result = "escalate" THEN CountRequest(requests, call)
                           ELSE requests
            /\ \E placed \in IF result = "escalate" /\ call.human_call_status = "none"
                             THEN BOOLEAN ELSE {FALSE} :
                 call' = LET c == IF result = "escalate"
                                  THEN EscalationRequest(call, placed) ELSE call
                         IN  IF result = "end" THEN [c EXCEPT !.state = "ended"] ELSE c
            /\ stream' = [stream EXCEPT ![s].pc = "synth", ![s].should_end = (result = "end")]
    /\ UNCHANGED <<storeSide, handler, transfer, statuses, digits, written,
                   mediaVars, dashVars, watchVars, registry, leg, returned>>

\* a turn that returns after a failed synthesis without touching the state
SynthFailureKeepsState(s) ==
    /\ stream[s].pc = "synth"
    /\ \E audio \in BOOLEAN :
         /\ call' = IF audio /\ ~stream[s].should_end
                    THEN [call EXCEPT !.state = "ai_conversation"] ELSE call
         /\ stream' = [stream EXCEPT ![s].pc = IF audio THEN "played" ELSE "open",
                                     ![s].should_end = FALSE]
    /\ UNCHANGED <<storeSide, handler, transfer, statuses, digits, written, requests,
                   mediaVars, dashVars, watchVars, registry, engine_calls, leg, returned>>

\* audio_processor.synthesize: without audio the turn sets AI_CONVERSATION and
\* returns nothing; with audio it sets AI_CONVERSATION unless should_end, and
\* the audio is sent to the stream
UtterSynth(s) ==
    /\ stream[s].pc = "synth"
    /\ \E audio \in BOOLEAN :
         /\ call' = IF audio /\ stream[s].should_end
                    THEN call ELSE [call EXCEPT !.state = "ai_conversation"]
         /\ stream' = [stream EXCEPT ![s].pc = IF audio THEN "played" ELSE "open",
                                     ![s].should_end = FALSE]
    /\ UNCHANGED <<storeSide, handler, transfer, statuses, digits, written, requests,
                   mediaVars, dashVars, watchVars, registry, engine_calls, leg, returned>>

\* after the response audio: a call found ENDED is ended after a delay
UtterPlayed(s) ==
    /\ stream[s].pc = "played"
    /\ stream' = [stream EXCEPT ![s].pc =
                      IF get_call_by_session(registry, call) /\ call.state = "ended"
                      THEN "ending" ELSE "open"]
    /\ UNCHANGED <<storeSide, escVars, requests, mediaVars, dashVars, watchVars, registry, engine_calls, leg,
                   returned>>

\* end_call: the provider completes the caller's call (unless the request
\* raises), the call is ENDED and removed from the registry
UtterEndCall(s) ==
    /\ stream[s].pc = "ending"
    /\ \E completed \in IF get_call_by_session(registry, call) THEN BOOLEAN ELSE {FALSE} :
         IF completed
         THEN /\ call' = cleanup_call([call EXCEPT !.state = "ended"])
              /\ registry' = cleanup_registry(registry, call)
              /\ leg' = [leg EXCEPT !.at = "gone"]
              /\ stream' = [StreamLeft(stream) EXCEPT ![s].pc = "open"]
         ELSE /\ stream' = [stream EXCEPT ![s].pc = "open"]
              /\ UNCHANGED <<call, registry, leg>>
    /\ UNCHANGED <<storeSide, handler, transfer, statuses, digits, written, requests,
                   mediaVars, dashVars, watchVars, engine_calls, returned>>

\* "stop" on the websocket: the call is set to ENDED unless it is escalating
StreamStop(s) ==
    /\ stream[s].pc = "open"
    /\ stream[s].stop_pending
    /\ call' = IF get_call(call) /\ call.state \notin EscalationStates
               THEN [call EXCEPT !.state = "ended"] ELSE call
    /\ stream' = [stream EXCEPT ![s].pc = "stopped", ![s].stop_pending = FALSE,
                                ![s].seen = IF get_call(call) THEN call.state ELSE "none"]
    /\ UNCHANGED <<storeSide, handler, transfer, statuses, digits, written, requests,
                   mediaVars, dashVars, watchVars, registry, engine_calls, leg, returned>>

\* the connection closes without a stop message
StreamDisconnect(s) ==
    /\ stream[s].pc = "open"
    /\ stream[s].stop_pending
    /\ stream' = [stream EXCEPT ![s].pc = "stopped", ![s].stop_pending = FALSE,
                                ![s].seen = IF get_call(call) THEN call.state ELSE "none"]
    /\ UNCHANGED <<storeSide, escVars, requests, mediaVars, dashVars, watchVars, registry, engine_calls, leg,
                   returned>>

\* the finally block keeps a call that is escalating and removes any other
KeepsCallInConference(c) == get_call(c) /\ c.state \in EscalationStates

\* the finally block of the websocket handler
StreamFinally(s) ==
    /\ stream[s].pc = "stopped"
    /\ stream' = [stream EXCEPT ![s].pc = "closed"]
    /\ IF KeepsCallInConference(call)
       THEN UNCHANGED <<call, registry>>
       ELSE /\ call' = cleanup_call(call)
            /\ registry' = cleanup_registry(registry, call)
    /\ UNCHANGED <<storeSide, handler, transfer, statuses, digits, written, requests,
                   mediaVars, dashVars, watchVars, engine_calls, leg, returned>>

\* the caller hangs up
CallerHangup ==
    /\ leg.at \in {"stream", "conference"}
    /\ leg' = [at |-> "gone", conference_end |-> leg.conference_end \/ leg.at = "conference"]
    /\ stream' = IF leg.at = "stream" THEN StreamLeft(stream) ELSE stream
    /\ UNCHANGED <<storeSide, escVars, requests, mediaVars, dashVars, watchVars, registry, engine_calls, returned>>

\* POST /return-to-ai, requested by the redirect of return_to_ai_conversation;
\* its TwiML connects the caller to a resumed stream
return_to_ai ==
    /\ leg.at = "returning"
    /\ leg' = [leg EXCEPT !.at = "resuming"]
    /\ call' = IF get_call_by_session(registry, call)
               THEN [call EXCEPT !.state = "ai_conversation", !.conference_name = FALSE,
                                 !.escalation_return_reason = "human_ended"]
               ELSE call
    /\ UNCHANGED <<storeSide, handler, transfer, statuses, digits, written, requests,
                   mediaVars, dashVars, watchVars, streamVars, returned>>

\* POST /conference-status with conference-end: the call is ended and removed
\* unless it is in the AI conversation
conference_status ==
    /\ leg.conference_end
    /\ leg' = [leg EXCEPT !.conference_end = FALSE]
    /\ IF get_call_by_session(registry, call) /\ call.state # "ai_conversation"
       THEN /\ call' = cleanup_call([call EXCEPT !.state = "ended"])
            /\ registry' = cleanup_registry(registry, call)
       ELSE UNCHANGED <<call, registry>>
    /\ UNCHANGED <<storeSide, handler, transfer, statuses, digits, written, requests,
                   mediaVars, dashVars, watchVars, stream, engine_calls, returned>>

\* register_call: the incoming call, in CONNECTING, before its first stream
RegisteredCall == [NoCall EXCEPT !.active = TRUE, !.state = "connecting"]

InitStream ==
    /\ use_redis = FALSE
    /\ store = NewState
    /\ notif_list = <<>>
    /\ delivered_set = {}
    /\ task_key = NoTaskKey
    /\ cas = [p \in Procs |-> IdleCas]
    /\ writer = [p \in Procs |-> IdleWriter]
    /\ turn = [p \in Procs |-> IdleTurn]
    /\ next_turn = 0
    /\ tasks_spawned = 0
    /\ worker = IdleWorker
    /\ next_notif = 0
    /\ published = {}
    /\ handed = [n \in 1..MaxNotifs |-> {}]
    /\ call = RegisteredCall
    /\ handler = IdleHandler
    /\ transfer = 0
    /\ statuses = <<>>
    /\ digits = <<>>
    /\ written = NoWrite
    /\ requests = NoRequests
    /\ watchdog = NoWatchdog
    /\ polled = "queued"
    /\ registry = [NoRegistry EXCEPT !.session_to_call = TRUE]
    /\ stream = [s \in Streams |-> NoStream]
    /\ engine_calls = <<>>
    /\ leg = [at |-> "connecting", conference_end |-> FALSE]
    /\ returned = "no"
    /\ MediaIdle

\* one call from its registration on: its media streams and utterance turns,
\* the keypress of the human, the transfer into the conference, the end of the
\* human leg and the return to the AI
NextStream ==
    \/ \E s \in Streams :
         \/ StreamStart(s)
         \/ StreamGreet(s)
         \/ UtterBegin(s)
         \/ UtterEngine(s)
         \/ UtterSynth(s)
         \/ UtterPlayed(s)
         \/ UtterEndCall(s)
         \/ StreamStop(s)
         \/ StreamDisconnect(s)
         \/ StreamFinally(s)
    \/ CallerHangup
    \/ human_confirmed
    \/ HandlerFinish
    \/ transfer_customer_to_conference
    \/ HumanStatus({"completed"}, 1)
    \/ return_to_ai
    \/ conference_status

SpecStream == InitStream /\ [][NextStream]_vars

\* ----------------------------------------- media frames, VAD and playback
\* process_audio_chunk up to the end of the utterance: the VAD on one frame,
\* loud meaning energy > SILENCE_THRESHOLD, n the frame
VadFrame(v, loud, n) ==
    IF loud
    THEN [v EXCEPT !.silence_frames = 0,
                   !.is_speaking = TRUE,
                   !.barge_in_requested = @ \/ (~v.is_speaking /\ v.is_playing_audio),
                   !.audio_buffer = Append(@, n)]
    ELSE IF v.is_speaking
         THEN [v EXCEPT !.silence_frames = @ + 1,
                        !.audio_buffer = Append(@, n),
                        !.is_speaking = (v.silence_frames + 1 < MIN_SILENCE_FRAMES)]
         ELSE v

\* an utterance that ends at the first silent frame
EndsAtFirstSilence(v, loud) == ~loud /\ v.is_speaking

\* the frame is the end of an utterance: _process_utterance is awaited
EndsUtterance(v, loud) ==
    ~loud /\ v.is_speaking /\ v.silence_frames + 1 >= MIN_SILENCE_FRAMES

\* the frames given to process_audio_chunk so far, and the runs they end with
TraceAfter(t, v, loud) ==
    [fed |-> t.fed + 1,
     loud_run |-> IF loud THEN t.loud_run + 1 ELSE 0,
     quiet_run |-> IF loud THEN 0 ELSE t.quiet_run + 1,
     speech_start |-> IF loud /\ ~v.is_speaking THEN t.fed + 1 ELSE t.speech_start,
     interrupted |-> IF loud
                     THEN v.is_speaking /\ (t.interrupted \/ t.quiet_run > 0)
                     ELSE t.interrupted]

\* a loud frame arrives while a send_audio_to_stream is sending
HeardBy(pb, loud) ==
    [b \in Players |->
        IF loud /\ pb[b].pc = "playing" THEN [pb[b] EXCEPT !.spoke = TRUE] ELSE pb[b]]

\* the media branch of the websocket loop on one frame: process_audio_chunk;
\* at the end of an utterance the loop stays in _process_utterance
process_audio_chunk(loud) ==
    /\ get_call_by_stream(registry, call, CurrentStream)
    /\ vad' = VadFrame(vad, loud, trace.fed + 1)
    /\ trace' = TraceAfter(trace, vad, loud)
    /\ media' = [media EXCEPT
                    !.loop = IF EndsUtterance(vad, loud) THEN "turn" ELSE "idle",
                    !.inbox = IF media.inbox = <<>> THEN <<>> ELSE Tail(media.inbox),
                    !.playback = IF media.inbox = <<>> THEN HeardBy(@, loud) ELSE @,
                    !.utterances = IF EndsUtterance(vad, loud)
                                   THEN Append(@, [buffer |-> vad'.audio_buffer,
                                                   interrupted |-> trace.interrupted])
                                   ELSE @]
    /\ UNCHANGED <<storeSide, escVars, requests, watchVars, callSide, dashVars>>

\* a media message is read by the idle websocket loop as it arrives
MediaFrame ==
    /\ media.loop = "idle"
    /\ media.inbox = <<>>
    /\ trace.fed < MaxFrames
    /\ \E loud \in BOOLEAN : process_audio_chunk(loud)

\* a media message arrives while the websocket loop is inside an utterance
\* turn or inside the send_audio_to_stream that follows it
MediaArrive ==
    /\ media.loop # "idle"
    /\ Len(media.inbox) < MaxInbox
    /\ trace.fed + Len(media.inbox) < MaxFrames
    /\ \E loud \in BOOLEAN :
         media' = [media EXCEPT !.inbox = Append(@, loud),
                                !.playback = HeardBy(@, loud)]
    /\ UNCHANGED <<storeSide, escVars, requests, watchVars, callSide, dashVars, vad, trace>>

\* the websocket loop, idle again, reads the oldest unread media message
MediaRead ==
    /\ media.loop = "idle"
    /\ media.inbox # <<>>
    /\ process_audio_chunk(Head(media.inbox))

\* set_playing_audio(session_id, is_playing)
set_playing_audio(v, is_playing) ==
    [v EXCEPT !.is_playing_audio = is_playing,
              !.barge_in_requested = IF is_playing THEN @ ELSE FALSE]

\* send_audio_to_stream after the conversion, before its first chunk
StartPlayback == [pc |-> "playing", left |-> MaxChunks, spoke |-> FALSE, overran |-> FALSE]

\* _process_utterance returns: the buffer is cleared; with response audio the
\* websocket loop goes on inside send_audio_to_stream. If it raises (the
\* read of the session record is not guarded) process_audio_chunk is left
\* before the buffer is cleared, and the loop's except branch calls
\* send_error_audio, which plays the error message if it has audio for it
UtteranceTurnDone ==
    /\ media.loop = "turn"
    /\ \E audio, raised \in BOOLEAN :
         /\ vad' = LET v == IF raised THEN vad
                            ELSE [vad EXCEPT !.audio_buffer = <<>>, !.silence_frames = 0]
                   IN  IF audio THEN set_playing_audio(v, TRUE) ELSE v
         /\ media' = IF audio
                     THEN [media EXCEPT !.loop = "playing", !.playback["turn"] = StartPlayback]
                     ELSE [media EXCEPT !.loop = "idle"]
    /\ UNCHANGED <<storeSide, escVars, requests, watchVars, callSide, dashVars, trace>>

\* event_poller has popped a pending event and has audio for the response of
\* the engine: it calls send_audio_to_stream
PollerPlay ==
    /\ media.polls < MaxPolls
    /\ media.playback["poller"].pc = "idle"
    /\ vad' = set_playing_audio(vad, TRUE)
    /\ media' = [media EXCEPT !.polls = @ + 1, !.playback["poller"] = StartPlayback]
    /\ UNCHANGED <<storeSide, escVars, requests, watchVars, callSide, dashVars, trace>>

\* one round of the chunk loop of send_audio_to_stream called by b: it stops
\* if should_barge_in, otherwise sends the next chunk; after the loop
\* set_playing_audio(False); the media branch then calls clear_barge_in
SendChunk(b) ==
    /\ media.playback[b].pc = "playing"
    /\ IF vad.barge_in_requested \/ media.playback[b].left = 0
       THEN /\ vad' = set_playing_audio(vad, FALSE)
            /\ media' = [media EXCEPT !.playback[b].pc = "idle",
                                      !.loop = IF b = "turn" THEN "idle" ELSE @]
       ELSE /\ media' = [media EXCEPT !.playback[b].left = @ - 1,
                                      !.playback[b].overran = @ \/ media.playback[b].spoke]
            /\ vad' = vad
    /\ UNCHANGED <<storeSide, escVars, requests, watchVars, callSide, dashVars, trace>>

\* the call in the AI conversation on its first media stream, after the greeting
InitVad ==
    /\ use_redis = FALSE
    /\ store = NewState
    /\ notif_list = <<>>
    /\ delivered_set = {}
    /\ task_key = NoTaskKey
    /\ cas = [p \in Procs |-> IdleCas]
    /\ writer = [p \in Procs |-> IdleWriter]
    /\ turn = [p \in Procs |-> IdleTurn]
    /\ next_turn = 0
    /\ tasks_spawned = 0
    /\ worker = IdleWorker
    /\ next_notif = 0
    /\ published = {}
    /\ handed = [n \in 1..MaxNotifs |-> {}]
    /\ call = [RegisteredCall EXCEPT !.state = "ai_conversation", !.stream_sid = 1]
    /\ handler = IdleHandler
    /\ transfer = 0
    /\ statuses = <<>>
    /\ digits = <<>>
    /\ written = NoWrite
    /\ requests = NoRequests
    /\ watchdog = NoWatchdog
    /\ polled = "queued"
    /\ registry = [stream_to_call |-> {1}, session_to_call |-> TRUE]
    /\ stream = [s \in Streams |-> IF s = 1 THEN [NoStream EXCEPT !.pc = "open"] ELSE NoStream]
    /\ engine_calls = <<[stream |-> 1, message |-> "call_started"]>>
    /\ leg = OnStream
    /\ returned = "no"
    /\ MediaIdle

\* the frames of one media stream, the utterance turns they end in and the
\* playbacks of the websocket loop and of the event poller
NextVad ==
    \/ MediaFrame
    \/ MediaArrive
    \/ MediaRead
    \/ UtteranceTurnDone
    \/ PollerPlay
    \/ \E b \in Players : SendChunk(b)

SpecVad == InitVad /\ [][NextVad]_vars

\* ------------------------------------------------- broadcast to viewers
\* the registered viewers: connections[session_id]
Registered == {v \in Viewers : viewers[v].registered}

\* broadcast up to its loop: under the lock it copies the set of connections
BroadcastStart ==
    /\ broadcast.pc = "idle"
    /\ broadcast' = [NoBroadcast EXCEPT !.pc = "loop", !.connections = Registered,
                                        !.todo = Registered]
    /\ UNCHANGED <<storeSide, escVars, requests, watchVars, callSide, mediaVars, viewers, sales, index>>

\* await websocket.send_json(json_message) raises, and the loop goes on
SendRaises(link) == link = "dead"

\* the loop takes the next websocket of the copy (a set: in any order) and
\* awaits send_json: the viewer receives the message, or the send raises and
\* the exception is caught, or the send does not complete
BroadcastSend ==
    /\ broadcast.pc = "loop"
    /\ broadcast.todo # {}
    /\ \E v \in broadcast.todo :
         broadcast' =
            IF SendRaises(viewers[v].link)
            THEN [broadcast EXCEPT !.todo = @ \ {v}]
            ELSE IF viewers[v].link = "ok"
                 THEN [broadcast EXCEPT !.todo = @ \ {v}, !.received = @ \cup {v}]
                 ELSE [broadcast EXCEPT !.todo = @ \ {v}, !.pc = "sending", !.sending = v,
                                        !.waited = @ \cup {v}]
    /\ UNCHANGED <<storeSide, escVars, requests, watchVars, callSide, mediaVars, viewers, sales, index>>

\* the awaited send_json returns: the slow viewer has taken the message, or
\* its connection has broken and the send raises
BroadcastResume ==
    /\ broadcast.pc = "sending"
    /\ viewers[broadcast.sending].link # "slow"
    /\ broadcast' = [broadcast EXCEPT
                        !.pc = "loop", !.sending = 0,
                        !.received = IF viewers[broadcast.sending].link = "ok"
                                     THEN @ \cup {broadcast.sending} ELSE @]
    /\ UNCHANGED <<storeSide, escVars, requests, watchVars, callSide, mediaVars, viewers, sales, index>>

\* the loop is over
BroadcastReturn ==
    /\ broadcast.pc = "loop"
    /\ broadcast.todo = {}
    /\ broadcast' = [broadcast EXCEPT !.pc = "done"]
    /\ UNCHANGED <<storeSide, escVars, requests, watchVars, callSide, mediaVars, viewers, sales, index>>

\* the connection of a viewer stops taking data, or breaks
ViewerLink(v) ==
    /\ viewers[v].link \in {"ok", "slow"}
    /\ \E link \in {"slow", "dead"} \ {viewers[v].link} :
         viewers' = [viewers EXCEPT ![v].link = link]
    /\ UNCHANGED <<storeSide, escVars, requests, watchVars, callSide, mediaVars, broadcast, sales, index>>

\* the endpoint of a viewer whose websocket has closed calls disconnect
disconnect(v) ==
    /\ viewers[v].registered
    /\ viewers' = [viewers EXCEPT ![v] = [registered |-> FALSE, link |-> "dead"]]
    /\ UNCHANGED <<storeSide, escVars, requests, watchVars, callSide, mediaVars, broadcast, sales, index>>

InitCast ==
    /\ use_redis = FALSE
    /\ store = NewState
    /\ notif_list = <<>>
    /\ delivered_set = {}
    /\ task_key = NoTaskKey
    /\ cas = [p \in Procs |-> IdleCas]
    /\ writer = [p \in Procs |-> IdleWriter]
    /\ turn = [p \in Procs |-> IdleTurn]
    /\ next_turn = 0
    /\ tasks_spawned = 0
    /\ worker = IdleWorker
    /\ next_notif = 0
    /\ published = {}
    /\ handed = [n \in 1..MaxNotifs |-> {}]
    /\ call = ConnectedCall
    /\ handler = IdleHandler
    /\ transfer = 0
    /\ statuses = <<>>
    /\ digits = <<>>
    /\ written = NoWrite
    /\ VoiceIdle

\* one broadcast to the viewers of a session, whose connections slow down,
\* break and are removed while it runs
NextCast ==
    \/ BroadcastStart
    \/ BroadcastSend
    \/ BroadcastResume
    \/ BroadcastReturn
    \/ \E v \in Viewers : ViewerLink(v) \/ disconnect(v)

SpecCast == InitCast /\ [][NextCast]_vars

\* ------------------------------------------------------ ringing the sales

\* ring_sales up to its first await: without a sales connection it returns
\* no_sales_online; otherwise it stores a new future under the session id,
\* replacing the entry that is there, and awaits the incoming_call broadcast
ring_sales(r) ==
    /\ sales.ring[r].pc = "idle"
    /\ sales' = IF ~sales.online
                THEN [sales EXCEPT !.ring[r] = [pc |-> "done", result |-> "none",
                                                outcome |-> "no_sales_online"]]
                ELSE [sales EXCEPT !.pending = r, !.ring[r].pc = "broadcast"]
    /\ UNCHANGED <<storeSide, escVars, requests, watchVars, callSide, mediaVars, viewers, broadcast, index>>

\* the incoming_call broadcast returned: wait_for(future, timeout) begins
RingWaits(r) ==
    /\ sales.ring[r].pc = "broadcast"
    /\ sales' = [sales EXCEPT !.ring[r].pc = "waiting"]
    /\ UNCHANGED <<storeSide, escVars, requests, watchVars, callSide, mediaVars, viewers, broadcast, index>>

\* the finally block of ring_sales: _pending_escalations.pop(session_id, None)
PopPending(s) == [s EXCEPT !.pending = 0]

\* wait_for returned the result of the future: ring_sales returns it
RingAnswered(r) ==
    /\ sales.ring[r].pc = "waiting"
    /\ sales.ring[r].result \in {"accepted", "declined"}
    /\ sales' = PopPending([sales EXCEPT !.ring[r].pc = "done",
                                         !.ring[r].outcome = sales.ring[r].result])
    /\ UNCHANGED <<storeSide, escVars, requests, watchVars, callSide, mediaVars, viewers, broadcast, index>>

\* wait_for timed out: it cancels the future, and ring_sales awaits the
\* call_timeout broadcast
RingTimeout(r) ==
    /\ sales.ring[r].pc = "waiting"
    /\ sales.ring[r].result = "none"
    /\ sales' = [sales EXCEPT !.ring[r].pc = "timeout_broadcast",
                              !.ring[r].result = "cancelled"]
    /\ UNCHANGED <<storeSide, escVars, requests, watchVars, callSide, mediaVars, viewers, broadcast, index>>

\* the call_timeout broadcast returned: ring_sales returns timeout
RingTimedOut(r) ==
    /\ sales.ring[r].pc = "timeout_broadcast"
    /\ sales' = PopPending([sales EXCEPT !.ring[r].pc = "done", !.ring[r].outcome = "timeout"])
    /\ UNCHANGED <<storeSide, escVars, requests, watchVars, callSide, mediaVars, viewers, broadcast, index>>

\* handle_sales_response finds a future under the session id that is not done
Handled(s) == s.pending # 0 /\ s.ring[s.pending].result = "none"

\* handle_sales_response: the answer of a sales dashboard for the session
handle_sales_response(accepted) ==
    /\ sales.answers < MaxAnswers
    /\ sales' =
          IF Handled(sales)
          THEN [sales EXCEPT !.ring[sales.pending].result =
                                  IF accepted THEN "accepted" ELSE "declined",
                             !.answers = @ + 1]
          ELSE [sales EXCEPT !.answers = @ + 1, !.unhandled = @ + 1]
    /\ UNCHANGED <<storeSide, escVars, requests, watchVars, callSide, mediaVars, viewers, broadcast, index>>

\* SalesConnectionManager.connect / disconnect of the only sales dashboard
SalesOnline ==
    /\ sales' = [sales EXCEPT !.online = ~sales.online]
    /\ UNCHANGED <<storeSide, escVars, requests, watchVars, callSide, mediaVars, viewers, broadcast, index>>

\* the rings of one session, which may overlap, and the answers of the sales
\* dashboard
NextRing ==
    \/ \E r \in Rings : ring_sales(r) \/ RingWaits(r) \/ RingAnswered(r) \/ RingTimeout(r)
                          \/ RingTimedOut(r)
    \/ \E accepted \in BOOLEAN : handle_sales_response(accepted)
    \/ SalesOnline

SpecRing == InitCast /\ [][NextRing]_vars

\* ------------------------------------------------- the three call indices
\* register_call(call_sid, session_id): a new ActiveCall in _active_calls,
\* and the session id points to it
register_call(c) ==
    /\ c \notin index.active_calls
    /\ index' = [index EXCEPT !.active_calls = @ \cup {c}, !.stream_sid[c] = 0,
                              !.session_to_call = c]
    /\ UNCHANGED <<storeSide, escVars, requests, watchVars, callSide, mediaVars, viewers, broadcast, sales>>

\* the call the "start" handler goes on with: the call of the call sid, or
\* on a miss the call of the session id (0: none)
StartedCall(c) ==
    IF c \in index.active_calls THEN c
    ELSE IF index.session_to_call \in index.active_calls THEN index.session_to_call
    ELSE 0

\* "start" of stream s with call sid c: register_stream(s, c), and on a miss
\* the stream is registered to the call found by the session id
StartMessage(s, c) ==
    /\ index' = IF StartedCall(c) = 0
                THEN [index EXCEPT !.stream_to_call[s] = c]
                ELSE [index EXCEPT !.stream_to_call[s] = StartedCall(c),
                                   !.stream_sid[StartedCall(c)] = s]
    /\ UNCHANGED <<storeSide, escVars, requests, watchVars, callSide, mediaVars, viewers, broadcast, sales>>

\* cleanup_call(call_sid): the call is popped, then the entry of its current
\* stream and the entry of its session id
CleanupCall(c) ==
    /\ c \in index.active_calls
    /\ index' = [index EXCEPT
                    !.active_calls = @ \ {c},
                    !.stream_to_call = [s \in Streams |->
                                          IF s = index.stream_sid[c] THEN 0 ELSE @[s]],
                    !.session_to_call = 0]
    /\ UNCHANGED <<storeSide, escVars, requests, watchVars, callSide, mediaVars, viewers, broadcast, sales>>

\* calls that come in with one session id, their streams, and their ends
NextIndex ==
    \E c \in Calls : \/ register_call(c)
                     \/ CleanupCall(c)
                     \/ \E s \in Streams : StartMessage(s, c)

SpecIndex == InitCast /\ [][NextIndex]_vars

\* ------------------------------------------------------------ the watchdog
\* one iteration of _human_call_watchdog after its sleep; elapsed time is the
\* number of wake-ups times the interval
WatchdogDecision(c, w) ==
    LET ticks == w.ticks + 1
        elapsed == ticks * WATCHDOG_CHECK_INTERVAL
        ringing_start == IF c.human_call_status = "ringing" /\ w.ringing_start = 0
                         THEN ticks ELSE w.ringing_start
        ringing_elapsed == (ticks - ringing_start) * WATCHDOG_CHECK_INTERVAL
        next == CASE ~c.active -> "done"
                  [] c.human_call_status \in {"failed", "completed", "in_conference",
                                               "confirmed"} -> "done"
                  [] ringing_start # 0 /\ ringing_elapsed > RINGING_TIMEOUT -> "check_break"
                  [] elapsed > WATCHDOG_TIMEOUT -> "check_break"
                  [] c.human_call_status = "calling" /\ elapsed > CALLING_TIMEOUT
                        -> "check_continue"
                  [] OTHER -> "sleep"
    IN  [pc |-> next, ticks |-> ticks,
         ringing_start |-> IF c.active THEN ringing_start ELSE w.ringing_start]

WatchdogTick ==
    /\ watchdog.pc = "sleep"
    /\ handler.pc = "idle"
    /\ watchdog' = WatchdogDecision(call, watchdog)
    /\ UNCHANGED <<use_redis, store, sideVars, cas, writer, turnVars, workVars, histVars,
                   escVars, requests, polled, callSide, mediaVars, dashVars>>

\* a check that takes a completed call for one that ended in the conference
PolledIgnoresCompleted(c, status) ==
    IF status \in {"busy", "no-answer", "failed", "canceled"} THEN status ELSE "none"

\* _check_and_update_call_status: what it passes to update_human_call_status
\* for the fetched status, "none" if it makes no update
PolledUpdate(c, status) ==
    CASE status \in {"busy", "no-answer", "failed", "canceled", "completed"} ->
            IF status = "completed" /\ c.human_call_status = "in_conference"
            THEN "none" ELSE status
      [] status = "in-progress" ->
            IF c.human_call_status \in {"waiting_confirmation", "confirmed", "in_conference"}
            THEN "none" ELSE "in-progress"
      [] status = "ringing" ->
            IF c.human_call_status # "ringing" THEN "ringing" ELSE "none"
      [] OTHER -> "none"

\* the watchdog polls the provider and drives update_human_call_status
WatchdogCheck ==
    /\ watchdog.pc \in {"check_break", "check_continue"}
    /\ handler.pc = "idle"
    /\ watchdog' = [watchdog EXCEPT !.pc = IF @ = "check_break" THEN "done" ELSE "sleep"]
    /\ LET status == PolledUpdate(call, polled)
       IN  IF ~call.active \/ status = "none"
           THEN UNCHANGED <<call, handler, store, written>>
           ELSE LET out == StatusOutcome(call, status)
                IN  /\ call' = out.call
                    /\ StorePart(status, status_mapping(out.frontend_status),
                                 out.escalation_in_progress)
    /\ UNCHANGED <<use_redis, sideVars, cas, writer, turnVars, workVars, histVars,
                   transfer, statuses, digits, requests, polled, callSide, mediaVars, dashVars>>

\* the outbound call was placed (CALLING) or its ringing callback was still
\* received (RINGING); from here on every status callback is dropped while
\* the provider reports a terminal status
TerminalStatuses == {"busy", "no-answer", "failed", "canceled", "completed"}

PlacedCall ==
    [NoCall EXCEPT !.active = TRUE, !.state = "ai_conversation",
                   !.human_call_status = "calling", !.conference_name = TRUE,
                   !.human_call_sid = TRUE, !.escalation_reason = TRUE, !.placed = TRUE]

InitWatch ==
    /\ use_redis \in BOOLEAN
    /\ \E flag \in BOOLEAN :
         store \in {NoState, [NewState EXCEPT !.escalation_in_progress = flag]}
    /\ notif_list = <<>>
    /\ delivered_set = {}
    /\ task_key = NoTaskKey
    /\ cas = [p \in Procs |-> IdleCas]
    /\ writer = [p \in Procs |-> IdleWriter]
    /\ turn = [p \in Procs |-> IdleTurn]
    /\ next_turn = 0
    /\ tasks_spawned = 0
    /\ worker = IdleWorker
    /\ next_notif = 0
    /\ published = {}
    /\ handed = [n \in 1..MaxNotifs |-> {}]
    /\ \E status \in {"calling", "ringing"} :
         call = [PlacedCall EXCEPT !.human_call_status = status]
    /\ handler = IdleHandler
    /\ transfer = 0
    /\ statuses = <<>>
    /\ digits = <<>>
    /\ written = NoWrite
    /\ requests = [NoRequests EXCEPT !.seen = 1, !.started = 1]
    /\ watchdog = [NoWatchdog EXCEPT !.pc = "sleep"]
    /\ polled \in TerminalStatuses
    /\ registry = [NoRegistry EXCEPT !.session_to_call = TRUE]
    /\ stream = [s \in Streams |-> NoStream]
    /\ engine_calls = <<>>
    /\ leg = OnStream
    /\ returned = "no"
    /\ MediaIdle

NextWatch ==
    \/ WatchdogTick
    \/ WatchdogCheck
    \/ HandlerRead
    \/ HandlerWrite
    \/ HandlerFinish

\* the event loop wakes the watchdog and resumes the handler it awaits
SpecWatch == InitWatch /\ [][NextWatch]_vars /\ WF_vars(NextWatch)

\* a call on its media stream whose outbound call to the human was placed:
\* the watchdog task of _start_human_call_background sleeps
InitEnd ==
    /\ use_redis \in BOOLEAN
    /\ store = [NewState EXCEPT !.escalation_in_progress = TRUE]
    /\ notif_list = <<>>
    /\ delivered_set = {}
    /\ task_key = NoTaskKey
    /\ cas = [p \in Procs |-> IdleCas]
    /\ writer = [p \in Procs |-> IdleWriter]
    /\ turn = [p \in Procs |-> IdleTurn]
    /\ next_turn = 0
    /\ tasks_spawned = 0
    /\ worker = IdleWorker
    /\ next_notif = 0
    /\ published = {}
    /\ handed = [n \in 1..MaxNotifs |-> {}]
    /\ \E status \in {"calling", "ringing"} :
         call = [PlacedCall EXCEPT !.human_call_status = status, !.stream_sid = 1]
    /\ handler = IdleHandler
    /\ transfer = 0
    /\ statuses = <<>>
    /\ digits = <<>>
    /\ written = NoWrite
    /\ requests = [NoRequests EXCEPT !.seen = 1, !.started = 1]
    /\ watchdog = [NoWatchdog EXCEPT !.pc = "sleep"]
    /\ polled \in {"no-answer", "ringing"}
    /\ registry = [stream_to_call |-> {1}, session_to_call |-> TRUE]
    /\ stream = [s \in Streams |-> IF s = 1 THEN [NoStream EXCEPT !.pc = "open"] ELSE NoStream]
    /\ engine_calls = <<[stream |-> 1, message |-> "call_started"]>>
    /\ leg = OnStream
    /\ returned = "no"
    /\ MediaIdle

\* the caller hangs up and the websocket handler cleans the call up while the
\* watchdog of the human call runs
NextEnd ==
    \/ WatchdogTick
    \/ WatchdogCheck
    \/ HandlerRead
    \/ HandlerWrite
    \/ HandlerFinish
    \/ CallerHangup
    \/ \E s \in Streams : StreamStop(s) \/ StreamDisconnect(s) \/ StreamFinally(s)

SpecEnd == InitEnd /\ [][NextEnd]_vars

\* client.calls(human_call_sid).fetch() raises: the except branch of
\* _check_and_update_call_status logs the error
FetchRaises == "raise"

\* a run of execute_human_check and a watchdog whose poll raises or reports
\* no-answer, side by side
InitFault ==
    /\ use_redis \in BOOLEAN
    /\ store = SpawnedState
    /\ notif_list = <<>>
    /\ delivered_set = {}
    /\ task_key = NoTaskKey
    /\ cas = [p \in Procs |-> IdleCas]
    /\ writer = [p \in Procs |-> IdleWriter]
    /\ turn = [p \in Procs |-> IdleTurn]
    /\ next_turn = 0
    /\ tasks_spawned = 1
    /\ worker = [IdleWorker EXCEPT !.pc = "running"]
    /\ next_notif = 0
    /\ published = {}
    /\ handed = [n \in 1..MaxNotifs |-> {}]
    /\ \E status \in {"calling", "ringing"} :
         call = [PlacedCall EXCEPT !.human_call_status = status]
    /\ handler = IdleHandler
    /\ transfer = 0
    /\ statuses = <<>>
    /\ digits = <<>>
    /\ written = NoWrite
    /\ requests = [NoRequests EXCEPT !.seen = 1, !.started = 1]
    /\ watchdog = [NoWatchdog EXCEPT !.pc = "sleep"]
    /\ polled \in {FetchRaises, "no-answer"}
    /\ registry = [NoRegistry EXCEPT !.session_to_call = TRUE]
    /\ stream = [s \in Streams |-> NoStream]
    /\ engine_calls = <<>>
    /\ leg = OnStream
    /\ returned = "no"
    /\ MediaIdle

NextFault ==
    \/ UpdateTaskGet
    \/ UpdateTaskSet
    \/ UpdateTaskMemory
    \/ RingSalesAt(DayHours)
    \/ WorkerNotify
    \/ NotificationCallback
    \/ WatchdogTick
    \/ WatchdogCheck
    \/ HandlerRead
    \/ HandlerWrite
    \/ HandlerFinish

SpecFault == InitFault /\ [][NextFault]_vars

\* the watchdog between its wake-up and the call of update_human_call_status:
\* the loop and _check_and_update_call_status do not await in between
WatchdogChecking == watchdog.pc \in {"check_break", "check_continue"}

\* the outbound call was placed and has ended at the provider; its ringing
\* and in-progress callbacks and the keypress still arrive, the callback of
\* the terminal status does not, and the watchdog polls
NextPoll ==
    \/ WatchdogTick
    \/ WatchdogCheck
    \/ HandlerRead
    \/ HandlerWrite
    \/ HandlerFinish
    \/ ~WatchdogChecking /\ HumanStatus({"ringing", "in-progress"}, 2)
    \/ ~WatchdogChecking /\ human_confirmed
    \/ ~WatchdogChecking /\ transfer_customer_to_conference

SpecPoll == InitWatch /\ [][NextPoll]_vars

\* ------------------------------------------------- the session store at work
Init ==
    /\ use_redis \in BOOLEAN
    /\ store = NoState
    /\ notif_list = <<>>
    /\ delivered_set = {}
    /\ task_key = NoTaskKey
    /\ cas = [p \in Procs |-> IdleCas]
    /\ writer = [p \in Procs |-> IdleWriter]
    /\ turn = [p \in Procs |-> IdleTurn]
    /\ next_turn = 0
    /\ tasks_spawned = 0
    /\ worker = IdleWorker
    /\ next_notif = 0
    /\ published = {}
    /\ handed = [n \in 1..MaxNotifs |-> {}]
    /\ call = AnsweredCall
    /\ handler = IdleHandler
    /\ transfer = 0
    /\ statuses = <<>>
    /\ digits = <<>>
    /\ written = NoWrite
    /\ VoiceIdle

\* one step of a conversation turn, its compare-and-set calls included; the
\* steps of sync_atomic_updates_to_state that follow a merge are SyncWrite
TurnStep(p) ==
    \/ TurnStart(p)
    \/ TurnRead(p)
    \/ TurnCreate(p)
    \/ SyncRead(p)
    \/ SyncDrain(p)
    \/ SyncTaskGet(p)
    \/ TurnReadMemory(p)
    \/ TurnEngine(p)
    \/ TurnCommitResult(p)
    \/ TurnForce(p)
    \/ TurnCommitMemory(p)
    \/ TurnReturn(p)
    \/ CasWatch(p)
    \/ CasGet(p)
    \/ CasExec(p)

SyncWrite(p) ==
    \/ SyncTaskDel(p)
    \/ SyncCasResult(p)

\* conversation turns of one session and the keypress webhook of its call;
\* nothing is published to the side channels here, so sync has nothing to save
Next ==
    \/ \E p \in Procs : TurnStep(p)
    \/ human_confirmed
    \/ HandlerRead
    \/ HandlerWrite
    \/ HandlerFinish
    \/ transfer_customer_to_conference

Spec == Init /\ [][Next]_vars

\* the event loop resumes every coroutine that can run: a request being
\* processed is not postponed forever
SpecFair == Spec /\ \A p \in Procs : WF_vars(TurnStep(p))

\* ------------------------------------------- the side channels of a session
InitSide ==
    /\ use_redis \in BOOLEAN
    /\ store = NoState
    /\ notif_list = <<>>
    /\ delivered_set = {}
    /\ task_key = NoTaskKey
    /\ cas = [p \in Procs |-> IdleCas]
    /\ writer = [p \in Procs |-> IdleWriter]
    /\ turn = [p \in Procs |-> IdleTurn]
    /\ next_turn = 0
    /\ tasks_spawned = 0
    /\ worker = IdleWorker
    /\ next_notif = 0
    /\ published = {}
    /\ handed = [n \in 1..MaxNotifs |-> {}]
    /\ call = NoCall
    /\ handler = IdleHandler
    /\ transfer = 0
    /\ statuses = <<>>
    /\ digits = <<>>
    /\ written = NoWrite
    /\ VoiceIdle

\* conversation turns, the background worker they spawn, and the webhooks
\* that publish notifications
NextSide ==
    \/ \E p \in Procs : TurnStep(p) \/ SyncWrite(p)
    \/ UpdateTaskGet
    \/ UpdateTaskSet
    \/ UpdateTaskMemory
    \/ RingSales
    \/ WorkerNotify
    \/ NotificationCallback
    \/ PublishWebhook

SpecSide == InitSide /\ [][NextSide]_vars

\* append_notification_atomic by a worker or a webhook while a sync runs:
\* another entry on the drained list (which notification it is does not
\* matter to sync_atomic_updates_to_state)
NotificationArrives ==
    /\ use_redis
    /\ notif_list = <<>>
    /\ notif_list' = <<Notification(1, 0, "high")>>
    /\ UNCHANGED <<voiceVars, use_redis, store, delivered_set, task_key, cas, writer, turnVars,
                   workVars, histVars, escVars>>

\* another client writes the session key with set_state (a status webhook, a
\* forced save): every WATCH on the key is broken
StoreRewritten ==
    /\ \E p \in Procs : cas[p].watch = "clean"
    /\ store' = set_state(store)
    /\ cas' = Touched(cas)
    /\ UNCHANGED <<voiceVars, use_redis, sideVars, writer, turnVars, workVars, histVars, escVars>>

\* the turn of p is inside sync_atomic_updates_to_state
InSync(p) ==
    turn[p].pc \in {"sync_read", "sync_drain", "sync_task_get", "sync_task_del", "sync_cas"}

\* two requests of one session have read the record and call
\* sync_atomic_updates_to_state; a notification waits on the list
InitSync ==
    /\ use_redis = TRUE
    /\ store = NewState
    /\ notif_list = <<Notification(1, 0, "high")>>
    /\ delivered_set = {}
    /\ task_key = NoTaskKey
    /\ cas = [p \in Procs |-> IdleCas]
    /\ writer = [p \in Procs |-> IdleWriter]
    /\ turn = [p \in Procs |-> [IdleTurn EXCEPT !.pc = "sync_read", !.id = p, !.reads = 1]]
    /\ next_turn = MaxTurns
    /\ tasks_spawned = 0
    /\ worker = IdleWorker
    /\ next_notif = 1
    /\ published = {1}
    /\ handed = [n \in 1..MaxNotifs |-> {}]
    /\ call = NoCall
    /\ handler = IdleHandler
    /\ transfer = 0
    /\ statuses = <<>>
    /\ digits = <<>>
    /\ written = NoWrite
    /\ VoiceIdle

\* one step of sync_atomic_updates_to_state called by p, its compare-and-set
\* included
SyncStep(p) ==
    \/ SyncRead(p)
    \/ SyncDrain(p)
    \/ SyncTaskGet(p)
    \/ SyncCasResult(p)
    \/ CasWatch(p)
    \/ CasGet(p)
    \/ CasExec(p)

NextSync ==
    \/ \E p \in Procs : SyncStep(p)
    \/ NotificationArrives
    \/ StoreRewritten

\* the event loop resumes a sync that can go on; nothing obliges the other
\* clients of the store to stop
SpecSync == InitSync /\ [][NextSync]_vars /\ \A p \in Procs : WF_vars(SyncStep(p))

\* ---------------------------------------------- two compare-and-set writers
\* A client reads the session with its version and prepares its own record.
WriterRead(p) ==
    /\ writer[p].pc = "idle"
    /\ store.exists
    /\ \E flag \in BOOLEAN :
        writer' = [writer EXCEPT ![p] =
            [pc |-> "read",
             version |-> get_state_with_version(store).version,
             state |-> [store EXCEPT !.escalation_in_progress = flag,
                                     !.messages = Append(store.messages, p)]]]
    /\ UNCHANGED <<voiceVars, use_redis, store, sideVars, cas, turnVars, workVars, histVars, escVars>>

\* ... and calls set_state_if_version(session_id, state, version).
WriterCall(p) ==
    /\ writer[p].pc = "read"
    /\ cas[p].pc = "idle"
    /\ cas' = [cas EXCEPT ![p] = [pc |-> "call", state |-> writer[p].state,
                                  expected |-> writer[p].version, watch |-> "off"]]
    /\ writer' = [writer EXCEPT ![p].pc = "called"]
    /\ UNCHANGED <<voiceVars, use_redis, store, sideVars, turnVars, workVars, histVars, escVars>>

InitCAS ==
    /\ use_redis \in BOOLEAN
    /\ \E v \in 0..MaxVersion, flag \in BOOLEAN :
         store = [NewState EXCEPT !.version = v, !.escalation_in_progress = flag]
    /\ notif_list = <<>>
    /\ delivered_set = {}
    /\ task_key = NoTaskKey
    /\ cas = [p \in Procs |-> IdleCas]
    /\ writer = [p \in Procs |-> IdleWriter]
    /\ turn = [p \in Procs |-> IdleTurn]
    /\ next_turn = 0
    /\ tasks_spawned = 0
    /\ worker = IdleWorker
    /\ next_notif = 0
    /\ published = {}
    /\ handed = [n \in 1..MaxNotifs |-> {}]
    /\ call = NoCall
    /\ handler = IdleHandler
    /\ transfer = 0
    /\ statuses = <<>>
    /\ digits = <<>>
    /\ written = NoWrite
    /\ VoiceIdle

NextCAS ==
    \E p \in Procs :
        \/ WriterRead(p)
        \/ WriterCall(p)
        \/ CasMemory(p)
        \/ CasWatch(p)
        \/ CasGet(p)
        \/ CasExec(p)

SpecCAS == InitCAS /\ [][NextCAS]_vars

\* delete_session: the session key is deleted (Redis: DEL is a write to a
\* WATCHed key; in memory: pop under the lock)
delete_session ==
    /\ store.exists
    /\ store' = NoState
    /\ cas' = Touched(cas)
    /\ UNCHANGED <<voiceVars, use_redis, sideVars, writer, turnVars, workVars, histVars, escVars>>

\* two compare-and-set writers that have read the session, and its deletion
NextDelete ==
    \/ NextCAS
    \/ delete_session

SpecDelete == InitCAS /\ [][NextDelete]_vars

\* ------------------------------------------------------------------- C1
Returned(p) == cas[p].pc \in {"ok", "conflict"}

\* C1: two writers that read the session at the same version V and both call
\* set_state_if_version with expected version V: exactly one call returns
\* True, the stored version is V+1, and the stored record is the one the
\* successful writer wrote (the rejected writer changed nothing).
C1_ExactlyOneWriterWins ==
    (/\ Returned(1) /\ Returned(2)
     /\ cas[1].expected = cas[2].expected)
    => \E w \in Procs :
          /\ cas[w].pc = "ok"
          /\ \A l \in Procs \ {w} : cas[l].pc = "conflict"
          /\ store = WithNextVersion(writer[w].state, writer[w].version)
          /\ store.version = cas[w].expected + 1

C1_Witness ==
    /\ Returned(1) /\ Returned(2)
    /\ cas[1].expected = cas[2].expected
    /\ cas[1].pc = "conflict" /\ cas[2].pc = "ok"
    /\ writer[1].state # writer[2].state

\* ------------------------------------------------------------------ C2
\* C2: every write of an existing session record succeeds only against the
\* version its writer read, and raises the stored version by exactly one: a
\* step that changes the stored record leaves its version one higher.
C2_EveryWriteRaisesVersionByOne ==
    [][(store.exists /\ store'.exists /\ store' # store)
          => store'.version = store.version + 1]_vars

\* ------------------------------------------------------------------ C3
\* C3: when one conversation turn and one escalation-flag write on the same
\* session have both finished (and the engine itself started no escalation),
\* the stored record holds the turn's two messages and the escalation fields
\* the handler wrote.
C3_NeitherUpdateLost ==
    (/\ next_turn = 1
     /\ \A p \in Procs : turn[p].pc = "idle"
     /\ handler.pc = "idle" /\ written.done
     /\ tasks_spawned = 0
     /\ store.exists)
    => /\ store.escalation_in_progress = written.flag
       /\ store.human_agent_status = written.agent_status
       /\ store.messages = <<[role |-> "human", turn |-> 1], [role |-> "ai", turn |-> 1]>>

\* ------------------------------------------------------------------ C4
\* C4: the stored version of an existing session never decreases, whichever
\* write is made (compare-and-set, forced overwrite, handler write).
C4_VersionNeverDecreases ==
    [][(store.exists /\ store'.exists) => store'.version >= store.version]_vars

\* ------------------------------------------------------------------ C5
\* C5: process_message makes at most MAX_RETRIES compare-and-set attempts per
\* user message, each on an engine run over a state read for that attempt; it
\* overwrites unconditionally at most once and only after MAX_RETRIES
\* conflicts; and its loop always ends in a return.
C5_BoundedRetry ==
    \A p \in Procs :
        /\ turn[p].attempts <= MAX_RETRIES
        /\ turn[p].retries <= MAX_RETRIES
        /\ turn[p].pc # "raised"
        /\ turn[p].pc \in {"commit", "commit_cas"}
              => /\ turn[p].engine_runs = turn[p].attempts + 1
                 /\ turn[p].reads = turn[p].engine_runs
                 /\ turn[p].updated.messages =
                       turn[p].state.messages \o
                           <<[role |-> "human", turn |-> turn[p].id],
                             [role |-> "ai", turn |-> turn[p].id]>>
        /\ turn[p].pc = "force"
              => /\ turn[p].retries = MAX_RETRIES
                 /\ turn[p].attempts = MAX_RETRIES
                 /\ turn[p].forced = 0
        /\ turn[p].forced = 1
              => turn[p].pc = "done" /\ turn[p].retries = MAX_RETRIES
        /\ turn[p].pc = "done"
              => \/ /\ turn[p].forced = 0
                    /\ turn[p].attempts = turn[p].retries + 1
                    /\ turn[p].engine_runs = turn[p].attempts
                 \/ /\ turn[p].forced = 1
                    /\ turn[p].attempts = MAX_RETRIES
                    /\ turn[p].engine_runs = MAX_RETRIES

\* ... and every call returns
C5_Returns == \A p \in Procs : (turn[p].pc = "read") ~> (turn[p].pc = "done")

Occurrences(queue, id) ==
    Cardinality({i \in 1..Len(queue) : queue[i].notification_id = id})

\* C6: when sync_atomic_updates_to_state returns to a turn, every notification
\* published before that turn called it is in the record it returns exactly
\* once, whether or not its compare-and-set had to be retried.
C6_PublishedMergedExactlyOnce ==
    \A p \in Procs :
        (turn[p].pc = "engine" /\ turn[p].synced)
            => \A n \in turn[p].snap :
                  Occurrences(turn[p].state.notifications_queue, n) = 1

\* ------------------------------------------------------------------ C7
\* a step in which append_notification_atomic or update_task_atomic completes
AtomicPublication ==
    \/ next_notif' # next_notif
    \/ /\ worker.pc \in {"running", "running_set", "completed", "completed_set"}
       /\ worker'.pc \in {"ring", "notify"}

\* C7: append_notification_atomic and update_task_atomic leave the main
\* session record, its version included, as it was - with either store.
C7_PublicationLeavesRecordAlone ==
    [][AtomicPublication => store' = store]_vars

\* ------------------------------------------------------------------ C8
\* the notification is marked delivered: in the Redis set, or on its entry in
\* the stored record
MarkedDelivered(n) ==
    \/ n \in delivered_set
    \/ /\ store.exists
       /\ \E i \in 1..Len(store.notifications_queue) :
             /\ store.notifications_queue[i].notification_id = n
             /\ store.notifications_queue[i].delivered

\* C8: a notification is handed to the engine by at most one turn, and it is
\* not marked delivered before a turn's engine run has received it.
C8_ConsumedByExactlyOneTurn ==
    \A n \in 1..MaxNotifs :
        /\ Cardinality(handed[n]) <= 1
        /\ MarkedDelivered(n) => handed[n] # {}

\* ------------------------------------------------------------------ C9
\* the caller is in the conference only if the human pressed 1
C9_ConferenceNeedsDigit1 ==
    (call.human_call_status = "in_conference" \/ call.state = "escalating")
        => \E i \in 1..Len(digits) : digits[i] = "1"

\* the start of an update_human_call_status for "in-progress" only moves the
\* escalation to waiting_confirmation: the caller's call state stays as it
\* is and no transfer is scheduled
C9_AnswerOnlyWaits ==
    [][(handler.pc = "idle" /\ handler'.pc # "idle" /\ handler'.kind = "in-progress")
          => /\ call'.human_call_status = "waiting_confirmation"
             /\ call'.state = call.state
             /\ transfer' = transfer]_vars

\* C9: in every reachable state the caller has been transferred into the
\* conference (in_conference, escalating) only if Digits "1" reached the
\* confirmation step; an "in-progress" status alone only leads to
\* waiting_confirmation with the caller still in the AI conversation.
C9_TransferOnlyAfterConfirmation == []C9_ConferenceNeedsDigit1 /\ C9_AnswerOnlyWaits

\* the human leg was answered, 1 was pressed, the caller is in the conference
C9_Witness ==
    /\ call.human_call_status = "in_conference"
    /\ call.state = "escalating"
    /\ digits = <<"1">>
    /\ \E i \in 1..Len(statuses) : statuses[i] = "in-progress"

\* ------------------------------------------------------------------ C10
\* C10: once initiated, ringing, in-progress and completed have been handled
\* in that order and no digit was received, human_call_status is failed, the
\* one queued event is escalation_failed with reason no-answer, and the
\* session's escalation_in_progress is false.
C10_UnconfirmedAnswerIsNoAnswer ==
    (/\ statuses = <<"initiated", "ringing", "in-progress", "completed">>
     /\ digits = <<>>
     /\ handler.pc = "idle")
    => /\ call.human_call_status = "failed"
       /\ call.pending_events = <<[type |-> "escalation_failed", reason |-> "no-answer"]>>
       /\ store.exists => ~store.escalation_in_progress

\* the four callbacks were handled for a session that exists
C10_Witness ==
    /\ statuses = <<"initiated", "ringing", "in-progress", "completed">>
    /\ digits = <<>>
    /\ handler.pc = "idle"
    /\ store.exists /\ written.done
    /\ call.human_call_status = "failed"

\* ------------------------------------------------------------------ C11
\* the terminal outcomes of the human leg: four statuses of the status
\* callback and the declining keypress
TerminalOutcomes == {"busy", "no-answer", "failed", "canceled", "declined"}

EscalationFailed(reason) == [type |-> "escalation_failed", reason |-> reason]

\* the status callback of a terminal outcome sets failed and queues its one
\* event at once; the declining keypress sets failed at once
C11_HandlerStarts ==
    [][(handler.pc = "idle" /\ handler'.pc # "idle" /\ handler'.kind \in TerminalOutcomes)
          => /\ call'.human_call_status = "failed"
             /\ call'.pending_events =
                    IF handler'.kind = "declined"
                    THEN call.pending_events
                    ELSE Append(call.pending_events, EscalationFailed(handler'.kind))]_vars

\* the handler's return: the declining keypress queues its one event here,
\* the status callback queues nothing more
C11_HandlerReturns ==
    [][(handler.pc = "finish" /\ handler'.pc = "idle" /\ handler.kind \in TerminalOutcomes)
          => /\ call'.human_call_status = "failed"
             /\ call'.pending_events =
                    IF handler.kind = "declined"
                    THEN Append(call.pending_events, EscalationFailed("declined"))
                    ELSE call.pending_events]_vars

\* after the handler's store part the session, if there is one, has
\* escalation_in_progress = false, and the handler queues nothing in between
C11_FlagReset ==
    (handler.pc = "finish" /\ handler.kind \in TerminalOutcomes)
       => /\ call.human_call_status = "failed"
          /\ store.exists => ~store.escalation_in_progress

C11_NothingQueuedMeanwhile ==
    [][(handler.pc \in {"read", "write"} /\ handler.kind \in TerminalOutcomes)
          => call'.pending_events = call.pending_events]_vars

\* C11: for busy, no-answer, failed, canceled (status callback) and declined
\* (a digit other than 1), the handler sets human_call_status to failed, sets
\* the session's escalation_in_progress to false, and queues exactly one
\* escalation_failed event whose reason is that outcome.
C11_TerminalOutcomeHandled ==
    /\ C11_HandlerStarts
    /\ C11_NothingQueuedMeanwhile
    /\ []C11_FlagReset
    /\ C11_HandlerReturns

\* a canceled callback was handled for a session that exists
C11_Witness ==
    /\ handler.pc = "idle"
    /\ statuses # <<>> /\ statuses[Len(statuses)] = "canceled"
    /\ digits = <<>>
    /\ call.human_call_status = "failed"
    /\ call.pending_events # <<>>
    /\ call.pending_events[Len(call.pending_events)] = EscalationFailed("canceled")
    /\ store.exists /\ written.done /\ ~store.escalation_in_progress

\* ------------------------------------------------------------------ C12
\* the escalation of the call has ended in a terminal outcome
EndedInTerminalOutcome ==
    /\ call.human_call_status = "failed"
    /\ \/ \E i \in 1..Len(statuses) :
             statuses[i] \in {"busy", "no-answer", "failed", "canceled"}
       \/ \E i \in 1..Len(digits) : digits[i] # "1"

\* C12: an escalation request of the engine that arrives after the
\* escalation of the call ended in a terminal outcome starts a new outbound
\* call to the human.
C12_RetryStartsNewCall ==
    [][(requests'.seen = requests.seen + 1 /\ call.active /\ EndedInTerminalOutcome)
          => requests'.started = requests.started + 1]_vars

\* ------------------------------------------------------------------ C13
\* C13: with every status callback dropped and a terminal status at the
\* provider, the escalation eventually leaves calling / ringing.
C13_LeavesCallingRinging ==
    <>(call.human_call_status \notin {"calling", "ringing"})


\* ------------------------------------------------------------------- C14
\* the engine turns of the resumed stream that carry the reason human_ended
ReturnedTurns ==
    {i \in 1..Len(engine_calls) :
        engine_calls[i] = [stream |-> 2, message |-> "human_ended"]}

\* C14: once the human leg has completed during the conference, and while the
\* caller has not hung up, the call stays registered in AI_CONVERSATION until
\* the resumed stream starts, and the first turn of the resumed stream passes
\* the reason human_ended to the engine
C14_CallerReturnedToAi ==
    /\ (returned = "pending" /\ leg.at # "gone")
          => (get_call_by_session(registry, call) /\ call.state = "ai_conversation")
    /\ returned = "resumed" => ReturnedTurns # {}


\* ------------------------------------------------------------------- C15
\* the handler of stream s reads the stop message, or finds the connection
\* closed, while the call is ESCALATING or IN_CONFERENCE
StopsWhileEscalating(s) ==
    /\ stream[s].pc = "open" /\ stream'[s].pc = "stopped"
    /\ get_call(call) /\ call.state \in EscalationStates

\* the handler of stream s, which stopped while the call was ESCALATING or
\* IN_CONFERENCE, runs its finally block
ClosesAfterEscalatingStop(s) ==
    /\ stream[s].pc = "stopped" /\ stream'[s].pc = "closed"
    /\ stream[s].seen \in EscalationStates

\* C15: a stream that stops, or whose connection closes, while the call is
\* ESCALATING or IN_CONFERENCE neither sets the call to ENDED nor removes it
\* from the registry, in its stop branch and in its finally block
C15_EscalatingCallSurvivesStop ==
    [][\A s \in Streams :
          (StopsWhileEscalating(s) \/ ClosesAfterEscalatingStop(s))
             => (call' = call /\ registry' = registry)]_vars


\* ------------------------------------------------------------------- C16
\* no lookup returns the call: not by call id, not by the id of any stream
\* ever registered for it, not by session id
Deregistered(reg, c) ==
    /\ ~get_call(c)
    /\ \A s \in Streams : ~get_call_by_stream(reg, c, s)
    /\ ~get_call_by_session(reg, c)

\* the finally block of stream s runs for a registered call that is neither
\* ESCALATING nor IN_CONFERENCE
EndsOutsideEscalation(s) ==
    /\ stream[s].pc = "stopped" /\ stream'[s].pc = "closed"
    /\ get_call(call) /\ call.state \notin EscalationStates

C17_EndedIsTerminal ==
    [][call.state = "ended" => call'.state = "ended"]_vars


\* ------------------------------------------------------------------- C18
\* C18: is_speaking becomes true only at the frame that completes a run of
\* MIN_SPEECH_FRAMES consecutive loud frames
C18_SpeechStartDebounced ==
    [][(~vad.is_speaking /\ vad'.is_speaking) => trace'.loud_run = MIN_SPEECH_FRAMES]_vars

\* ------------------------------------------------------------------- C19
\* the frames first..last in their order
FramesFrom(first, last) == [i \in 1..(last - first + 1) |-> first + i - 1]

\* an utterance is handed to _process_utterance in this step
UtteranceHanded == Len(media'.utterances) > Len(media.utterances)

C20_BargeInStopsPlayback ==
    /\ [](~vad.is_playing_audio => ~vad.barge_in_requested)
    /\ [][\A b \in Players :
             (media.playback[b].pc = "playing" /\ media.playback[b].spoke)
                => media'.playback[b].left = media.playback[b].left]_vars


\* ------------------------------------------------------------------- C21
\* C21: the transfer of the caller into the conference is attempted at most
\* once for each escalation that was started, however often the keypress
\* webhook is delivered
C21_TransferAttemptedOnce ==
    requests.transfers <= requests.started


\* ------------------------------------------------------------------- C22
\* C22: the call is registered in CONNECTING, the start of its first media
\* stream moves it to AI_CONVERSATION, and every utterance turn, from the
\* detected end of the utterance to the end of its engine step, calls the
\* conversation engine exactly once
C22_OneEngineCallPerUtterance ==
    /\ [](stream[1].pc = "none" /\ call.active => call.state = "connecting")
    /\ [][(stream[1].pc = "none" /\ stream'[1].pc # "none" /\ call.active)
             => call'.state = "ai_conversation"]_vars
    /\ [][\A s \in Streams :
             (stream[s].pc = "processing" /\ stream'[s].pc # "processing")
                => Len(engine_calls') = Len(engine_calls) + 1]_vars


\* ------------------------------------------------------------------- C23
\* the viewers of the copy whose connection takes what is sent to it
AbleViewers == {v \in broadcast.connections : viewers[v].link = "ok"}

\* C23: a broadcast that is held up by one viewer has delivered the message
\* to every other viewer of its copy that can take it, and a broadcast that has
\* returned has delivered it to all of them
C23_SlowViewerDoesNotBlock ==
    /\ broadcast.pc = "sending" => AbleViewers \ {broadcast.sending} \subseteq broadcast.received
    /\ broadcast.pc = "done" => AbleViewers \subseteq broadcast.received


\* ------------------------------------------------------------------- C24
\* the notifications published for the task of the run
TaskNotifications ==
    SelectSeq(IF use_redis THEN notif_list ELSE store.notifications_queue,
              LAMBDA n : n.task_id = 1)

\* the status of the task where update_task_atomic writes it
TaskStatus ==
    IF use_redis THEN task_key.status ELSE store.pending_tasks[1].status

\* the run of execute_human_check is over
RunEnded == worker.pc \in {"idle", "raised"}

\* C24: a run of execute_human_check that is over has published exactly one
\* notification for its task, whose priority is interrupt or high, and at
\* every moment a published notification of the task finds the task completed
C24_RunEndsWithOneNotification ==
    /\ RunEnded
          => /\ Len(TaskNotifications) = 1
             /\ TaskNotifications[1].priority \in {"interrupt", "high"}
    /\ TaskNotifications # <<>> => TaskStatus = "completed"


\* ------------------------------------------------------------------- C25
\* a step of an utterance turn of stream s
UtteranceStep(s) ==
    stream[s].pc \in {"processing", "synth"} /\ stream'[s].pc # stream[s].pc

\* a step in which the escalation fails or the human leaves
EscalationEnds ==
    /\ call.human_call_status \in {"confirmed", "in_conference"}
    /\ call'.human_call_status \in {"failed", "completed", "none"}

\* C25: a call in state Escalating stays Escalating, except that it becomes
\* AiConversation when the escalation fails or the human leaves, or Ended; no
\* step of an utterance turn changes the state of an Escalating call, and a
\* transfer that fails leaves the call in AiConversation
C25_EscalatingOnlyReturnsToAi ==
    /\ [][call.state = "escalating" /\ call'.state # "escalating"
            => /\ call'.state \in {"ai_conversation", "ended"}
               /\ call'.state = "ai_conversation" => EscalationEnds]_vars
    /\ [][\A s \in Streams :
            call.state = "escalating" /\ UtteranceStep(s) => call'.state = "escalating"]_vars
    /\ [][call.human_call_status = "confirmed" /\ call'.human_call_status = "failed"
            => call'.state = "ai_conversation"]_vars


\* ------------------------------------------------------------------- C26
\* the position of a status of the human call on the way to the conference
StatusRank(h) ==
    CASE h = "none" -> 0
      [] h = "calling" -> 1
      [] h = "ringing" -> 2
      [] h = "waiting_confirmation" -> 3
      [] h = "confirmed" -> 4
      [] h = "in_conference" -> 5
      [] OTHER -> 6

\* a change of the status from a to b within one escalation goes forward
MovesForward(a, b) ==
    /\ a \notin {"failed", "completed"}
    /\ StatusRank(a) < StatusRank(b)
    /\ b = "confirmed" => a = "waiting_confirmation"

\* C26: within one escalation every change of human_call_status goes forward
\* along none, calling, ringing, waiting_confirmation, confirmed,
\* in_conference or into failed or completed, it never leaves failed or
\* completed, and confirmed is entered only from waiting_confirmation
C26_HumanStatusMovesForward ==
    [][(call.human_call_status # call'.human_call_status /\ call.active /\ call'.active
          /\ call'.human_call_status # "none")
          => MovesForward(call.human_call_status, call'.human_call_status)]_vars


\* ------------------------------------------------------------------- C27
\* an escalation_failed event is queued on the call
FailureQueued ==
    \E i \in 1..Len(call.pending_events) : call.pending_events[i].type = "escalation_failed"

\* C27: once human_call_status is failed and the handler that set it has
\* finished, the session's escalation_in_progress is false and an
\* escalation_failed event is queued on the call
C27_FailedResetsEscalation ==
    (call.active /\ call.human_call_status = "failed" /\ handler.pc = "idle")
        => /\ FailureQueued
           /\ store.exists => ~store.escalation_in_progress


\* ------------------------------------------------------------------- C28
\* C28: while barge_in_requested is set and a playback is sending, that
\* playback starts no further chunk (the one whose send is awaited is the one
\* further chunk), and the request stays set until the playback has stopped
C28_BargeInStopsWithinOneChunk ==
    [][\A b \in Players :
         (vad.barge_in_requested /\ media.playback[b].pc = "playing")
            => /\ media'.playback[b].left = media.playback[b].left
               /\ media'.playback[b].pc = "playing" => vad'.barge_in_requested]_vars


\* ------------------------------------------------------------------- C29
\* C29: whatever human_call_status the watchdog's check finds, with a terminal
\* polled status it leaves the call (human_call_status, queued events) and
\* the update of the session (human_agent_status, escalation_in_progress) as
\* the status callback of that status would
C29_WatchdogActsAsCallback ==
    [][(WatchdogChecking /\ watchdog'.pc # watchdog.pc /\ call.active
          /\ polled \in TerminalStatuses)
          => LET out == StatusOutcome(call, polled)
             IN  /\ call' = out.call
                 /\ StorePart(polled, status_mapping(out.frontend_status),
                              out.escalation_in_progress)]_vars

\* the watchdog found the call answered but unconfirmed and completed at the
\* provider, and has failed the escalation as the callback does
C29_Witness ==
    /\ polled = "completed"
    /\ watchdog.pc = "done"
    /\ statuses = <<"ringing", "in-progress">>
    /\ call.human_call_status = "failed"
    /\ call.pending_events = <<[type |-> "escalation_failed", reason |-> "no-answer"]>>


\* ------------------------------------------------------------------- C30
\* C30: after a run of execute_human_check that raised, the task is neither
\* pending nor running and the session's escalation_in_progress is false; and
\* after a watchdog whose poll raised has stopped, human_call_status is failed
\* and the session's escalation_in_progress is false
C30_ErrorsMeanUnavailable ==
    /\ worker.pc = "raised"
          => /\ TaskStatus \notin {"pending", "running"}
             /\ ~store.escalation_in_progress
    /\ (polled = FetchRaises /\ watchdog.pc = "done")
          => /\ call.human_call_status = "failed"
             /\ ~store.escalation_in_progress


\* ------------------------------------------------------------------- C31
\* the turn of stream s returns without a transcription
TranscriptionFails(s) == stream[s].pc = "processing" /\ stream'[s].pc = "open"

\* the engine raised in the turn of stream s: it was asked again for an apology
EngineFails(s) ==
    /\ stream[s].pc = "processing" /\ stream'[s].pc = "synth"
    /\ Len(engine_calls') = Len(engine_calls) + 2

\* the turn of stream s returns without audio
SynthesisFails(s) == stream[s].pc = "synth" /\ stream'[s].pc = "open"

C32_PollersFinishBeforeCleanup ==
    /\ [](~call.active => watchdog.pc \in {"off", "done"})
    /\ [][~call.active => (watchdog' = watchdog /\ handler' = handler)]_vars


\* ------------------------------------------------------------------- C33
\* C33: every call of sync_atomic_updates_to_state returns: a sync whose
\* compare-and-set conflicts re-reads and retries, and stops retrying
C33_SyncTerminates ==
    \A p \in Procs : InSync(p) ~> ~InSync(p)

\* ring r waits for the answer of the sales dashboard: its future is pending
Undecided(r) == sales.ring[r].pc \in {"broadcast", "waiting"} /\ sales.ring[r].result = "none"

\* a call of handle_sales_response
Answer == sales'.answers = sales.answers + 1

\* C34: ring_sales returns one outcome per ring: no_sales_online at once
\* when no sales dashboard is connected, otherwise the first answer of the
\* sales dashboard or timeout; an answer that arrives when every ring is
\* decided is reported as not handled; an answer that arrives while a ring
\* waits, also a ring that overlaps another ring of the session, decides a
\* waiting ring, and no pending entry is left when the rings have returned.
C34_EachRingGetsItsOutcome ==
    /\ [](\A r \in Rings :
            sales.ring[r].pc = "done"
               => sales.ring[r].outcome \in {"no_sales_online", "accepted", "declined", "timeout"})
    /\ []((\A r \in Rings : sales.ring[r].pc \in {"idle", "done"}) => sales.pending = 0)
    /\ [][\A r \in Rings :
            /\ sales.ring[r].pc = "done" => sales'.ring[r] = sales.ring[r]
            /\ (sales.ring[r].pc = "idle" /\ sales'.ring[r].pc # "idle" /\ ~sales.online)
                  => sales'.ring[r].outcome = "no_sales_online"
            /\ (Answer /\ \A q \in Rings : ~Undecided(q))
                  => sales'.unhandled = sales.unhandled + 1]_vars
    /\ [][(Answer /\ \E r \in Rings : Undecided(r))
            => \E r \in Rings : Undecided(r) /\ sales'.ring[r].result \in {"accepted", "declined"}]_vars


\* ------------------------------------------------------------------- C35
\* a status callback of the human leg is handled
StatusCallback == Len(statuses') = Len(statuses) + 1

\* the callback's handler writes escalation_in_progress = true to the record
WritesInProgress ==
    IF use_redis THEN handler'.flag ELSE store'.exists /\ store'.escalation_in_progress

\* C35: a status callback that arrives after the escalation resolved to
\* failed, a trailing completed in particular, leaves human_call_status
\* failed and does not write escalation_in_progress = true to the session
C35_FailedStaysResolved ==
    [][(StatusCallback /\ call.active /\ call.human_call_status = "failed")
          => /\ call'.human_call_status = "failed"
             /\ ~WritesInProgress]_vars


\* ------------------------------------------------------------------- C36
\* C36: after any sequence of registrations and cleanups the three indices
\* agree: every stream-id entry and the session-id entry point to a call in
\* the call index, and while a call of the session is registered the session
\* id finds a registered call, also after another call of the same session
\* was cleaned up.
C36_IndicesAgree ==
    /\ \A s \in Streams :
          index.stream_to_call[s] # 0 => index.stream_to_call[s] \in index.active_calls
    /\ index.session_to_call # 0 => index.session_to_call \in index.active_calls
    /\ index.active_calls # {} => index.session_to_call \in index.active_calls


\* ------------------------------------------------------------------- C38
\* C38: whenever is_speaking is false and no utterance is being processed,
\* audio_buffer is empty and silence_frames is 0, also after an utterance
\* whose processing raised; the buffer of an utterance that starts holds
\* only the frame that started it.
C38_BufferEmptyWhenSilent ==
    /\ []((~vad.is_speaking /\ media.loop # "turn")
             => (vad.audio_buffer = <<>> /\ vad.silence_frames = 0))
    /\ [][(~vad.is_speaking /\ vad'.is_speaking) => Len(vad'.audio_buffer) = 1]_vars


\* ------------------------------------------------------------------- C37
\* a send_audio_to_stream is sending its chunks
Playing(m) == \E b \in Players : m.playback[b].pc = "playing"

\* C37: while a playback is sending, also when the playback of the reply
\* and the playback of a proactive message overlap, is_playing_audio is true,
\* and a pending barge_in_requested stays set until the last of them stopped.
C37_OverlappingPlaybacksKeepFlags ==
    /\ [](Playing(media) => vad.is_playing_audio)
    /\ [][(vad.barge_in_requested /\ Playing(media')) => vad'.barge_in_requested]_vars


\* ------------------------------------------------------------------- C39
\* the conference-end event of the call is handled
ConferenceEnd == leg.conference_end /\ ~leg'.conference_end /\ call.active

\* C39: on a conference-end event a call whose state is ai_conversation is
\* neither set to ended nor deregistered; a call in any other state is set to
\* ended and removed from the call index, the stream index and the session
\* index.
C39_ConferenceEndSparesAiConversation ==
    [][ConferenceEnd
         => IF call.state = "ai_conversation"
            THEN call' = call /\ registry' = registry
            ELSE /\ call'.state = "ended"
                 /\ ~call'.active
                 /\ registry' = NoRegistry]_vars


\* ------------------------------------------------------------------- C40
\* C40: a compare-and-set write does not recreate a removed session: after
\* delete_session a set_state_if_version with the version of an earlier
\* record is rejected and the session stays absent.
C40_CasNeverRecreatesSession ==
    [][~store.exists
         => /\ ~store'.exists
            /\ \A p \in Procs : cas'[p].pc # "ok" \/ cas[p].pc = "ok"]_vars

====
